---------------------------- MODULE Spec2Model ----------------------------
(***************************************************************************)
(* A model of the lock-free object pool of syncpool (src/syncpool/src):    *)
(* the bit arbitration primitives of utils.rs, the bucket Bucket2 of       *)
(* bucket.rs and the pool SyncPool of pool.rs with its visitor guard.      *)
(*                                                                         *)
(* Every atomic memory operation of the code is one step of one thread.    *)
(* A usize is represented by the representative of its residue class       *)
(* modulo 2^64 that lies nearest to 0: -1 stands for usize::MAX.  Addition *)
(* and subtraction of representatives are then the wrapping operations;    *)
(* unsigned comparison and remainder are UGt and UMod below.               *)
(***************************************************************************)
EXTENDS Integers, Sequences, FiniteSets, TLC

(***************************************************************************)
(* Program constants.                                                      *)
(***************************************************************************)
SLOT_CAP == 8
TRIALS_COUNT == 4
EXPANSION_CAP == 512
POOL_SIZE == 8
CONFIG_ALLOW_EXPANSION == 1
GET_MASK == 43690
PUT_MASK == 65535
FULL_FLAG == 21845
UsizeBits == 64

(***************************************************************************)
(* Bounds of the model.                                                    *)
(***************************************************************************)
NThreads == 2
MaxOps == 2
MaxSeqOps == 10
MaxBuckets == 2
CursorSpan == 2
MaxRuns == 8

Threads == 1..NThreads

\* the threads that use the pool through PoolManager as well
Managers == {1}

(***************************************************************************)
(* Unsigned machine arithmetic.                                            *)
(***************************************************************************)
RECURSIVE PowMod(_, _, _)
PowMod(b, e, m) == IF e = 0 THEN 1 % m ELSE (b * PowMod(b, e - 1, m)) % m

\* v > w for the usize values that v and w represent
UGt(v, w) ==
    IF v < 0 THEN (w >= 0 \/ v > w) ELSE (w >= 0 /\ v > w)

\* v % m for the usize value that v represents (m > 0)
UMod(v, m) ==
    IF v >= 0 THEN v % m ELSE (PowMod(2, UsizeBits, m) + (v % m)) % m

BitAt(x, i) == (x \div (2 ^ i)) % 2

\* bitwise operations on u16 words
RECURSIVE BitAnd(_, _)
BitAnd(a, b) ==
    IF a = 0 \/ b = 0 THEN 0
    ELSE (a % 2) * (b % 2) + 2 * BitAnd(a \div 2, b \div 2)

RECURSIVE BitOr(_, _)
BitOr(a, b) ==
    IF a = 0 THEN b
    ELSE IF b = 0 THEN a
    ELSE (IF (a % 2) + (b % 2) > 0 THEN 1 ELSE 0) + 2 * BitOr(a \div 2, b \div 2)

RECURSIVE BitXor(_, _)
BitXor(a, b) ==
    IF a = 0 THEN b
    ELSE IF b = 0 THEN a
    ELSE (((a % 2) + (b % 2)) % 2) + 2 * BitXor(a \div 2, b \div 2)

\* u16 >> n
Shr(x, n) == x \div (2 ^ n)

\* u16::trailing_zeros
TrailingZeros(x) ==
    IF x = 0 THEN 16
    ELSE CHOOSE i \in 0..15 :
            BitAt(x, i) = 1 /\ \A j \in 0..(i - 1) : BitAt(x, j) = 0

(***************************************************************************)
(* Result<_, ()>                                                           *)
(***************************************************************************)
Ok(p) == [ok |-> TRUE, pos |-> p]
Err == [ok |-> FALSE, pos |-> 0]

(***************************************************************************)
(* utils.rs: the bit arbitration primitives.                               *)
(***************************************************************************)
\* an enter that reports slot 0 whatever the word is
enterFirst(src, get) == Ok(0)

\* an enter that reports the first slot a get or a put could use if no
\* slot were locked
enterUnlocked(src, get) ==
    LET val == TrailingZeros(BitAnd(IF get THEN src ELSE BitXor(src, PUT_MASK),
                                    FULL_FLAG))
    IN  IF val > 14 THEN Err ELSE Ok(val \div 2)

\* the spot-check loop of enter
RECURSIVE EnterScan(_, _)
EnterScan(base, pos) ==
    IF base > 0
    THEN IF BitAnd(base, 3) = 3 THEN Ok(pos) ELSE EnterScan(Shr(base, 2), pos + 1)
    ELSE Err

enter(src, get) ==
    IF get /\ src = 0 THEN Err
    ELSE IF ~get /\ src = FULL_FLAG THEN Err
    ELSE LET base == IF get THEN BitXor(src, GET_MASK) ELSE BitXor(src, PUT_MASK)
             val == TrailingZeros(BitAnd(base, PUT_MASK))
         IN  IF val > 14 THEN Err
             ELSE IF val % 2 = 1
                  THEN EnterScan(Shr(base, val + 1), (val + 1) \div 2)
                  ELSE EnterScan(Shr(base, val), val \div 2)

RECURSIVE CheckLenCount(_)
CheckLenCount(base) ==
    IF base > 0
    THEN (IF BitAnd(base, 1) = 1 THEN 1 ELSE 0) + CheckLenCount(Shr(base, 2))
    ELSE 0

\* a check_len that counts the set bits of all the positions
check_len_all(src) == CheckLenCount(src) + CheckLenCount(Shr(src, 1))

check_len(src) ==
    LET m == BitAnd(src, FULL_FLAG)
    IN  IF m = 0 THEN 0
        ELSE IF m = FULL_FLAG THEN 8
        ELSE CheckLenCount(m)


(***************************************************************************)
(* The state.                                                              *)
(*                                                                         *)
(* heap[a] is the contents of the heap buffer at address a that holds (or  *)
(* held) the buckets of the Vec `slots`; the variable slots is the address *)
(* of the Vec's current buffer, so heap[slots] is the bucket vector.  A    *)
(* buffer that a push moved away from stays in heap for as long as a       *)
(* thread still holds a reference into it.  A bucket is a record           *)
(*   [slot : the eight raw pointers, len : the occupancy hint,             *)
(*    bitmap : the state word];                                            *)
(* a pointer is the identity of the value it points to, NULL for null.     *)
(***************************************************************************)
VARIABLES
    heap,               \* SyncPool.slots: the buffers of the bucket vector
    slots,              \* SyncPool.slots: the address of the current buffer
    curr,               \* SyncPool.curr: [c0: the get cursor, c1: the put cursor]
    visitor_counter,    \* SyncPool.visitor_counter: [count, barrier]
    miss_count,         \* SyncPool.miss_count
    configure,          \* SyncPool.configure
    reset_handle,       \* SyncPool.reset_handle: NoHandle or a hook
    pc,                 \* per thread: the place of the thread in its call
    loc,                \* per thread: the local variables of the call
    held,               \* per thread: the values the caller owns
    ops,                \* per thread: the number of calls it may still make
    applied,            \* the values put while a reset hook was set, each
                        \* with the number of times release has called the
                        \* hook on it: a set of <<value, calls>>
    ctor,               \* the call that constructed the pool: [name, size]
    probe,              \* a call of a function of utils.rs on a state word:
                        \* [src, fn, get, res], fn = "none" before the call
    refilling,          \* per thread: the local variables of its call of
                        \* refill, which last over the calls of put it makes
    origin              \* of the values alive: [built: those make_elem
                        \* constructed for the pool, given: those a caller
                        \* allocated and handed to put]

vars == <<heap, slots, curr, visitor_counter, miss_count, configure,
          reset_handle, pc, loc, held, ops, applied, ctor, probe, refilling,
          origin>>

NULL == 0
NoHandle == "none"
Handles == {"h1"}

\* the local variables of a thread outside a call
Loc0 ==
    [get |-> FALSE, cap |-> 0, trials |-> 0, pos |-> 0, buf |-> 0,
     atrials |-> 0, i |-> 0, val |-> NULL, ok |-> FALSE,
     count |-> 0, additional |-> 0, block |-> FALSE, safe |-> FALSE,
     handle |-> NoHandle]

(***************************************************************************)
(* Values.  make_elem allocates; the allocator hands out the lowest        *)
(* address that is not in use.                                             *)
(***************************************************************************)
SlotValues(b) == {b.slot[k] : k \in 1..SLOT_CAP} \ {NULL}

LiveValues ==
    UNION {UNION {SlotValues(heap[a][k]) : k \in DOMAIN heap[a]} : a \in DOMAIN heap}
    \cup UNION {held[t] : t \in Threads}
    \cup ({loc[t].val : t \in Threads} \ {NULL})

\* the n-th (n >= 1) lowest address from `from` on that is not in `used`;
\* when the addresses in use are the lowest ones there is no need to go
\* through them one by one
RECURSIVE NthFree(_, _, _)
NthFree(used, n, from) ==
    IF from = 1 /\ used = 1..Cardinality(used) THEN Cardinality(used) + n
    ELSE IF from \in used THEN NthFree(used, n, from + 1)
    ELSE IF n = 1 THEN from
    ELSE NthFree(used, n - 1, from + 1)

\* utils.rs make_elem: a newly constructed value
make_elem == NthFree(LiveValues, 1, 1)

\* the origins once the pool has built the values vs with make_elem
Built(o, vs) == [built |-> o.built \cup vs, given |-> o.given \ vs]

\* the origins once a caller that owns the values `own` hands v to put: a
\* value it does not own yet is one it has allocated itself
Given(o, v, own) ==
    IF v \in own THEN o
    ELSE [built |-> o.built \ {v}, given |-> o.given \cup {v}]

\* the origins once the value v is dropped
Freed(o, v) == [built |-> o.built \ {v}, given |-> o.given \ {v}]

(***************************************************************************)
(* bucket.rs: Bucket2                                                      *)
(***************************************************************************)
\* Bucket2::new: the word after the loop has executed
\* bitmap |= 1 << (2 * i) for the first n slots; the bit 2 * i is not set
\* in the word before that, so that the |= adds 2 ^ (2 * i) to it
RECURSIVE FilledWord(_)
FilledWord(n) ==
    IF n = 0 THEN 0 ELSE FilledWord(n - 1) + 2 ^ (2 * (n - 1))

\* Bucket2::new(Some(filler)) with the values `used` already allocated
Bucket2New(used) ==
    [slot |-> [k \in 1..SLOT_CAP |-> NthFree(used, k, 1)],
     len |-> SLOT_CAP,
     bitmap |-> FilledWord(SLOT_CAP)]

\* a size_hint that reports len as it is
size_hint_raw(b) == b.len

\* Bucket2::size_hint
size_hint(b) == UMod(b.len, SLOT_CAP + 1)

\* the lock bit of slot pos: 0b10 << (2 * pos)
LockMask(pos) == 2 * (4 ^ pos)

\* a hint that is added to by get as it is by put
HintCounted(curr_len, get) == curr_len + 1

\* access: len after the fetch_sub of a get, the fetch_add of a put
HintAfter(curr_len, get) == IF get THEN curr_len - 1 ELSE curr_len + 1

\* access: the hint gate turns the caller away
GateRejects(curr_len, get) ==
    UGt(curr_len, SLOT_CAP) \/ (get /\ curr_len = 0)

\* an access_failure that leaves the hint as it finds it
HintLeft(curr_len, get) == curr_len

\* access_failure: len after the fetch_add of a get, the fetch_sub of a put
HintRestored(curr_len, get) == IF get THEN curr_len + 1 ELSE curr_len - 1

\* an access that takes the result of its fetch_or for the lock whatever
\* the word was
LockAssumed(old, mask) == TRUE

\* access: the fetch_or took the lock
LockAcquired(old, mask) == BitAnd(old, mask) = 0

\* a leave that toggles the presence bit alone
LeaveWordPresence(old, pos) == BitXor(old, 4 ^ pos)

\* a leave that toggles the lock bit alone
LeaveWordLock(old, pos) == BitXor(old, 2 * (4 ^ pos))

\* leave: the word after fetch_xor(0b11 << (2 * pos))
LeaveWord(old, pos) == BitXor(old, 3 * (4 ^ pos))

\* leave: the loop ends
LeaveDone(old, pos) == BitAnd(old, LockMask(pos)) = LockMask(pos)

\* a checkout that copies the pointer and leaves it in the slot
checkoutCopy(slot, pos) ==
    IF pos >= SLOT_CAP \/ slot[pos + 1] = NULL
    THEN [ok |-> FALSE, val |-> NULL, slot |-> slot]
    ELSE [ok |-> TRUE, val |-> slot[pos + 1], slot |-> slot]

\* Bucket2::checkout: [ok, val, slot] the result and the slots afterwards
checkout(slot, pos) ==
    IF pos >= SLOT_CAP \/ slot[pos + 1] = NULL
    THEN [ok |-> FALSE, val |-> NULL, slot |-> slot]
    ELSE [ok |-> TRUE, val |-> slot[pos + 1],
          slot |-> [slot EXCEPT ![pos + 1] = NULL]]

\* a release that installs the value as it is, whatever the hook
releaseAsIs(slot, pos, val, reset) ==
    IF pos >= SLOT_CAP \/ slot[pos + 1] # NULL
    THEN [ok |-> FALSE, slot |-> slot, hooks |-> 0]
    ELSE [ok |-> TRUE, slot |-> [slot EXCEPT ![pos + 1] = val], hooks |-> 0]

\* Bucket2::release: [ok, slot, hooks] whether val was installed, the slots
\* afterwards (val is dropped when it was not installed), and the number of
\* calls of the reset hook on val
release(slot, pos, val, reset) ==
    IF pos >= SLOT_CAP \/ slot[pos + 1] # NULL
    THEN [ok |-> FALSE, slot |-> slot, hooks |-> 0]
    ELSE [ok |-> TRUE, slot |-> [slot EXCEPT ![pos + 1] = val],
          hooks |-> IF reset # NoHandle THEN 1 ELSE 0]

(***************************************************************************)
(* pool.rs                                                                 *)
(***************************************************************************)
Buckets == heap[slots]

\* PoolState::capacity
capacity == Len(Buckets) * SLOT_CAP

RECURSIVE SumHints(_, _)
SumHints(bs, k) ==
    IF k = 0 THEN 0 ELSE size_hint(bs[k]) + SumHints(bs, k - 1)

\* PoolState::len
len == SumHints(Buckets, Len(Buckets))

\* the values in the slots of the buckets bs
ValuesOf(bs) == UNION {SlotValues(bs[k]) : k \in DOMAIN bs}

\* SyncPool::add_slots(n, true) on an empty vector: n buckets made by
\* Bucket2::new one after the other, the values `used` being allocated
\* already; the first half of the buckets, then the others
RECURSIVE FilledBuckets(_, _)
FilledBuckets(n, used) ==
    IF n = 0 THEN <<>>
    ELSE IF n = 1 THEN <<Bucket2New(used)>>
    ELSE LET first == FilledBuckets(n \div 2, used)
         IN  first \o FilledBuckets(n - (n \div 2), used \cup ValuesOf(first))

\* a with_size that rounds the number of buckets up
with_size_up(size) == (size + SLOT_CAP - 1) \div SLOT_CAP

\* SyncPool::with_size: the pool_size it hands to make_pool
with_size(size) ==
    LET pool_size == size \div SLOT_CAP
    IN  IF pool_size < 1 THEN 1 ELSE pool_size

make_pool(size) ==
    /\ slots = 1
    /\ heap = (1 :> FilledBuckets(size, {}))
    /\ curr = [c0 |-> 0, c1 |-> 0]
    /\ visitor_counter = [count |-> 1, barrier |-> FALSE]
    /\ miss_count = 0
    /\ configure = 0
    /\ reset_handle = NoHandle
    /\ applied = {}

\* the position the cursor gives: cursor % cap on the usize
CursorPos(cursor, cap) == UMod(cursor, cap)

\* a put that scans as long as a get does
PutTrialsOfGet(cap) == cap

\* a get that scans as long as a put does
GetTrialsOfPut(cap) == 2 * cap

\* get: the trials of one call
GetTrials(cap) == cap

\* put: the trials of one call
PutTrials(cap) == 2 * cap

\* get: miss_count after the fetch_add of a miss
MissAfter(m) == m + 1

\* The bucket b after its k lowest slots were checked out, one get after
\* the other, and the values discarded.
Drained(b, k) ==
    [slot |-> [j \in 1..SLOT_CAP |-> IF j <= k THEN NULL ELSE b.slot[j]],
     len |-> b.len - k,
     bitmap |-> b.bitmap - ((4 ^ k) - 1) \div 3]

\* SyncPool::with_size(size)
Sized(size) == [name |-> "with_size", size |-> size]

\* no function of utils.rs is called on its own
NoProbe == [src |-> 0, fn |-> "none", get |-> FALSE, res |-> Err, len |-> 0]

\* the local variables of refill outside a call of refill that has not
\* returned anything yet
NoRefill ==
    [at |-> "none", additional |-> 0, cap |-> 0, empty_slots |-> 0,
     quota |-> 0, count |-> 0, runs |-> 0, val |-> NULL, ret |-> 0]

\* Bucket2::new fills every slot with a value of make_elem: in a new pool
\* every value is one the pool built
NewOrigin == [built |-> ValuesOf(heap[slots]), given |-> {}]

\* the pool was constructed by with_size for n buckets, and no function of
\* utils.rs and no refill is called
Constructed(n) ==
    /\ ctor = Sized(SLOT_CAP * n)
    /\ probe = NoProbe
    /\ refilling = [t \in Threads |-> NoRefill]
    /\ origin = NewOrigin

ThreadsIdle ==
    /\ pc = [t \in Threads |-> "idle"]
    /\ loc = [t \in Threads |-> Loc0]
    /\ held = [t \in Threads |-> {}]
    /\ ops = [t \in Threads |-> MaxOps]

\* A pool of one bucket from which k values have been taken, by k calls of
\* get on the new pool one after the other, and discarded.
Init ==
    /\ \E k \in 0..SLOT_CAP :
          /\ slots = 1
          /\ heap = (1 :> <<Drained(Bucket2New({}), k)>>)
    /\ curr = [c0 |-> 0, c1 |-> 0]
    /\ visitor_counter = [count |-> 1, barrier |-> FALSE]
    /\ miss_count = 0
    /\ configure = 0
    /\ reset_handle = NoHandle
    /\ applied = {}
    /\ Constructed(1)
    /\ ThreadsIdle


(***************************************************************************)
(* The bucket behind the reference `slot` of thread t, and the heap after  *)
(* the thread has written bucket b through that reference.                 *)
(***************************************************************************)
Bkt(t) == heap[loc[t].buf][loc[t].pos + 1]

WithBkt(t, b) == [heap EXCEPT ![loc[t].buf][loc[t].pos + 1] = b]

\* a buffer the Vec has moved away from is forgotten with the last
\* reference into it
Referenced(h, l) ==
    LET keep == {slots} \cup {l[t].buf : t \in Threads}
    IN  [a \in (DOMAIN h) \cap keep |-> h[a]]

(***************************************************************************)
(* VisitorGuard                                                            *)
(***************************************************************************)
\* VisitorGuard::register: fetch_add(1)
Registered(vc) == [vc EXCEPT !.count = vc.count + 1]

\* VisitorGuard::drop: fetch_sub(1)
Unregistered(vc) == [vc EXCEPT !.count = vc.count - 1]

(***************************************************************************)
(* SyncPool::get                                                           *)
(***************************************************************************)
\* a register that lets a get in whatever the barrier is
TurnedAwayNever(barrier) == FALSE

\* VisitorGuard::register(_, true) returns None: the barrier is raised
TurnedAway(barrier) == barrier

\* the call and the barrier check of VisitorGuard::register(_, true): with
\* the barrier raised get returns make_elem at once
GetCall(t) ==
    /\ pc[t] = "idle"
    /\ ops[t] > 0
    /\ ops' = [ops EXCEPT ![t] = @ - 1]
    /\ IF TurnedAway(visitor_counter.barrier)
       THEN /\ held' = [held EXCEPT ![t] = @ \cup {make_elem}]
            /\ origin' = Built(origin, {make_elem})
            /\ UNCHANGED <<pc, loc>>
       ELSE /\ pc' = [pc EXCEPT ![t] = "g_visit"]
            /\ loc' = [loc EXCEPT ![t] = [Loc0 EXCEPT !.get = TRUE]]
            /\ UNCHANGED <<held, origin>>
    /\ UNCHANGED <<heap, slots, curr, visitor_counter, miss_count, configure,
                   reset_handle, applied,
                   ctor, probe, refilling>>

\* register's fetch_add, and cap = self.slots.len(), trials = cap
GetVisit(t) ==
    /\ pc[t] = "g_visit"
    /\ visitor_counter' = Registered(visitor_counter)
    /\ loc' = [loc EXCEPT ![t].cap = Len(Buckets),
                          ![t].trials = GetTrials(Len(Buckets))]
    /\ pc' = [pc EXCEPT ![t] = "g_cur"]
    /\ UNCHANGED <<heap, slots, curr, miss_count, configure, reset_handle,
                   applied, held, ops,
                   ctor, probe, refilling, origin>>

\* pos = self.curr.0.load() % cap, and slot = &mut self.slots[pos]
GetCur(t) ==
    /\ pc[t] = "g_cur"
    /\ loc' = [loc EXCEPT ![t].pos = CursorPos(curr.c0, loc[t].cap),
                          ![t].buf = slots]
    /\ pc' = [pc EXCEPT ![t] = "a_gate"]
    /\ UNCHANGED <<heap, slots, curr, visitor_counter, miss_count, configure,
                   reset_handle, applied, held, ops,
                   ctor, probe, refilling, origin>>

(***************************************************************************)
(* Bucket2::access, called by get and by put                               *)
(***************************************************************************)
\* the hint gate: fetch_sub / fetch_add on len
AccessGate(t) ==
    /\ pc[t] = "a_gate"
    /\ LET b == Bkt(t)
           curr_len == b.len
           new_len == HintAfter(curr_len, loc[t].get)
       IN  /\ heap' = WithBkt(t, [b EXCEPT !.len = new_len])
           /\ IF GateRejects(curr_len, loc[t].get)
              THEN /\ pc' = [pc EXCEPT ![t] = "a_fail"]
                   /\ UNCHANGED loc
              ELSE /\ pc' = [pc EXCEPT ![t] = "a_load"]
                   /\ loc' = [loc EXCEPT ![t].atrials = TRIALS_COUNT]
    /\ UNCHANGED <<slots, curr, visitor_counter, miss_count, configure,
                   reset_handle, applied, held, ops,
                   ctor, probe, refilling, origin>>

\* one trial: trials -= 1, enter(self.bitmap.load(), get)
AccessLoad(t) ==
    /\ pc[t] = "a_load"
    /\ LET r == enter(Bkt(t).bitmap, loc[t].get)
           n == loc[t].atrials - 1
       IN  IF r.ok
           THEN /\ loc' = [loc EXCEPT ![t].atrials = n, ![t].i = r.pos]
                /\ pc' = [pc EXCEPT ![t] = "a_or"]
           ELSE /\ loc' = [loc EXCEPT ![t].atrials = n]
                /\ pc' = [pc EXCEPT ![t] = IF n = 0 THEN "a_fail" ELSE "a_load"]
    /\ UNCHANGED <<heap, slots, curr, visitor_counter, miss_count, configure,
                   reset_handle, applied, held, ops,
                   ctor, probe, refilling, origin>>

\* old = self.bitmap.fetch_or(mask); Ok(pos) if the lock bit was clear
AccessOr(t) ==
    /\ pc[t] = "a_or"
    /\ LET b == Bkt(t)
           mask == LockMask(loc[t].i)
           old == b.bitmap
       IN  /\ heap' = WithBkt(t, [b EXCEPT !.bitmap = BitOr(old, mask)])
           /\ IF LockAcquired(old, mask)
              THEN /\ loc' = [loc EXCEPT ![t].atrials = 0]
                   /\ pc' = [pc EXCEPT ![t] =
                                IF loc[t].get THEN "g_checkout" ELSE "p_store"]
              ELSE /\ UNCHANGED loc
                   /\ pc' = [pc EXCEPT ![t] =
                                IF loc[t].atrials = 0 THEN "a_fail" ELSE "a_load"]
    /\ UNCHANGED <<slots, curr, visitor_counter, miss_count, configure,
                   reset_handle, applied, held, ops,
                   ctor, probe, refilling, origin>>

\* Bucket2::access_failure: the hint is put back, access returns Err
AccessFailure(t) ==
    /\ pc[t] = "a_fail"
    /\ LET b == Bkt(t)
           new_len == HintRestored(b.len, loc[t].get)
       IN  heap' = WithBkt(t, [b EXCEPT !.len = new_len])
    /\ loc' = [loc EXCEPT ![t].atrials = 0, ![t].i = 0]
    /\ pc' = [pc EXCEPT ![t] = IF loc[t].get THEN "g_next" ELSE "p_next"]
    /\ UNCHANGED <<slots, curr, visitor_counter, miss_count, configure,
                   reset_handle, applied, held, ops,
                   ctor, probe, refilling, origin>>

\* Bucket2::leave: one fetch_xor of the loop
Leave(t) ==
    /\ pc[t] \in {"g_leave", "p_leave"}
    /\ LET b == Bkt(t)
           old == b.bitmap
       IN  /\ heap' = WithBkt(t, [b EXCEPT !.bitmap = LeaveWord(old, loc[t].i)])
           /\ pc' = [pc EXCEPT ![t] =
                        IF ~LeaveDone(old, loc[t].i) THEN @
                        ELSE IF pc[t] = "p_leave" THEN "p_ret"
                        ELSE IF loc[t].ok THEN "g_store" ELSE "g_unreg"]
    /\ UNCHANGED <<slots, curr, visitor_counter, miss_count, configure,
                   reset_handle, applied, loc, held, ops,
                   ctor, probe, refilling, origin>>


(***************************************************************************)
(* SyncPool::get, after access                                             *)
(***************************************************************************)
\* let checkout = slot.checkout(i)
GetCheckout(t) ==
    /\ pc[t] = "g_checkout"
    /\ LET b == Bkt(t)
           r == checkout(b.slot, loc[t].i)
       IN  /\ heap' = WithBkt(t, [b EXCEPT !.slot = r.slot])
           /\ loc' = [loc EXCEPT ![t].ok = r.ok, ![t].val = r.val]
    /\ pc' = [pc EXCEPT ![t] = "g_leave"]
    /\ UNCHANGED <<slots, curr, visitor_counter, miss_count, configure,
                   reset_handle, applied, held, ops,
                   ctor, probe, refilling, origin>>

\* self.curr.0.store(pos)
GetStore(t) ==
    /\ pc[t] = "g_store"
    /\ curr' = [curr EXCEPT !.c0 = loc[t].pos]
    /\ pc' = [pc EXCEPT ![t] = "g_ret"]
    /\ UNCHANGED <<heap, slots, visitor_counter, miss_count, configure,
                   reset_handle, applied, loc, held, ops,
                   ctor, probe, refilling, origin>>

\* the record of the hook calls without value v: the caller of get owns v
\* and writes to it as it likes
Forgotten(a, v) == {p \in a : p[1] # v}

\* return val: the guard is dropped, the caller owns val
GetRet(t) ==
    /\ pc[t] = "g_ret"
    /\ visitor_counter' = Unregistered(visitor_counter)
    /\ held' = [held EXCEPT ![t] = @ \cup {loc[t].val}]
    /\ applied' = Forgotten(applied, loc[t].val)
    /\ pc' = [pc EXCEPT ![t] = "idle"]
    /\ loc' = [loc EXCEPT ![t] = Loc0]
    /\ heap' = Referenced(heap, loc')
    /\ UNCHANGED <<slots, curr, miss_count, configure, reset_handle, ops,
                   ctor, probe, refilling, origin>>

\* access returned Err: pos = self.curr.0.fetch_add(1) % cap, trials -= 1,
\* then either the break or the next round's slot = &mut self.slots[pos]
GetNext(t) ==
    /\ pc[t] = "g_next"
    /\ LET old == curr.c0
           n == loc[t].trials - 1
       IN  /\ curr' = [curr EXCEPT !.c0 = old + 1]
           /\ loc' = [loc EXCEPT ![t].pos = CursorPos(old, loc[t].cap),
                                 ![t].trials = n,
                                 ![t].buf = IF n = 0 THEN 0 ELSE slots]
           /\ pc' = [pc EXCEPT ![t] = IF n = 0 THEN "g_unreg" ELSE "a_gate"]
    /\ heap' = Referenced(heap, loc')
    /\ UNCHANGED <<slots, visitor_counter, miss_count, configure,
                   reset_handle, applied, held, ops,
                   ctor, probe, refilling, origin>>

\* drop(guard)
GetDropGuard(t) ==
    /\ pc[t] = "g_unreg"
    /\ visitor_counter' = Unregistered(visitor_counter)
    /\ pc' = [pc EXCEPT ![t] = "g_miss"]
    /\ loc' = [loc EXCEPT ![t] = [Loc0 EXCEPT !.get = TRUE]]
    /\ heap' = Referenced(heap, loc')
    /\ UNCHANGED <<slots, curr, miss_count, configure, reset_handle, applied, held, ops,
                   ctor, probe, refilling, origin>>

\* self.miss_count.fetch_add(1); make_elem(&self.builder)
GetMiss(t) ==
    /\ pc[t] = "g_miss"
    /\ miss_count' = MissAfter(miss_count)
    /\ held' = [held EXCEPT ![t] = @ \cup {make_elem}]
    /\ origin' = Built(origin, {make_elem})
    /\ pc' = [pc EXCEPT ![t] = "idle"]
    /\ loc' = [loc EXCEPT ![t] = Loc0]
    /\ UNCHANGED <<heap, slots, curr, visitor_counter, configure, reset_handle,
                   applied, ops,
                   ctor, probe, refilling>>

(***************************************************************************)
(* SyncPool::put                                                           *)
(***************************************************************************)
\* The values a caller can hand to put: those it owns and, at the start of
\* a budget of calls, one it has allocated itself.
Returnable(t) ==
    held[t] \cup (IF ops[t] \in {MaxOps, MaxSeqOps} THEN {make_elem} ELSE {})

\* the call put(val), and the first barrier check of
\* VisitorGuard::register(_, false)
PutCall(t, v) ==
    /\ pc[t] = "idle"
    /\ ops[t] > 0
    /\ ops' = [ops EXCEPT ![t] = @ - 1]
    /\ v \in Returnable(t)
    /\ held' = [held EXCEPT ![t] = @ \ {v}]
    /\ origin' = Given(origin, v, held[t])
    /\ loc' = [loc EXCEPT ![t] = [Loc0 EXCEPT !.val = v]]
    /\ pc' = [pc EXCEPT ![t] =
                 IF visitor_counter.barrier THEN "p_reg" ELSE "p_visit"]
    /\ UNCHANGED <<heap, slots, curr, visitor_counter, miss_count, configure,
                   reset_handle, applied,
                   ctor, probe, refilling>>

\* register's wait loop: it is left when the barrier is seen lowered
PutRegister(t) ==
    /\ pc[t] = "p_reg"
    /\ ~visitor_counter.barrier
    /\ pc' = [pc EXCEPT ![t] = "p_visit"]
    /\ UNCHANGED <<heap, slots, curr, visitor_counter, miss_count, configure,
                   reset_handle, applied, loc, held, ops,
                   ctor, probe, refilling, origin>>

\* register's fetch_add, and cap = self.slots.len(), trials = 2 * cap
PutVisit(t) ==
    /\ pc[t] = "p_visit"
    /\ visitor_counter' = Registered(visitor_counter)
    /\ loc' = [loc EXCEPT ![t].cap = Len(Buckets),
                          ![t].trials = PutTrials(Len(Buckets))]
    /\ pc' = [pc EXCEPT ![t] = "p_cur"]
    /\ UNCHANGED <<heap, slots, curr, miss_count, configure, reset_handle,
                   applied, held, ops,
                   ctor, probe, refilling, origin>>

\* pos = self.curr.1.load() % cap, and slot = &mut self.slots[pos]
PutCur(t) ==
    /\ pc[t] = "p_cur"
    /\ loc' = [loc EXCEPT ![t].pos = CursorPos(curr.c1, loc[t].cap),
                          ![t].buf = slots]
    /\ pc' = [pc EXCEPT ![t] = "a_gate"]
    /\ UNCHANGED <<heap, slots, curr, visitor_counter, miss_count, configure,
                   reset_handle, applied, held, ops,
                   ctor, probe, refilling, origin>>

\* self.curr.1.store(pos)
PutStore(t) ==
    /\ pc[t] = "p_store"
    /\ curr' = [curr EXCEPT !.c1 = loc[t].pos]
    /\ pc' = [pc EXCEPT ![t] = "p_release"]
    /\ UNCHANGED <<heap, slots, visitor_counter, miss_count, configure,
                   reset_handle, applied, loc, held, ops,
                   ctor, probe, refilling, origin>>

\* slot.release(i, val, self.reset_handle): ok records whether val was
\* installed; if not, release has dropped it
PutRelease(t) ==
    /\ pc[t] = "p_release"
    /\ LET b == Bkt(t)
           r == release(b.slot, loc[t].i, loc[t].val, reset_handle)
       IN  /\ heap' = WithBkt(t, [b EXCEPT !.slot = r.slot])
           /\ loc' = [loc EXCEPT ![t].ok = r.ok, ![t].val = NULL]
           /\ applied' = IF r.ok /\ reset_handle # NoHandle
                         THEN applied \cup {<<loc[t].val, r.hooks>>}
                         ELSE applied
           /\ origin' = IF r.ok THEN origin ELSE Freed(origin, loc[t].val)
    /\ pc' = [pc EXCEPT ![t] = "p_leave"]
    /\ UNCHANGED <<slots, curr, visitor_counter, miss_count, configure,
                   reset_handle, held, ops,
                   ctor, probe, refilling>>

\* return None: the guard is dropped
PutRet(t) ==
    /\ pc[t] = "p_ret"
    /\ visitor_counter' = Unregistered(visitor_counter)
    /\ pc' = [pc EXCEPT ![t] = "idle"]
    /\ loc' = [loc EXCEPT ![t] = Loc0]
    /\ heap' = Referenced(heap, loc')
    /\ UNCHANGED <<slots, curr, miss_count, configure, reset_handle, applied, held, ops,
                   ctor, probe, refilling, origin>>

\* access returned Err: pos = self.curr.1.fetch_add(1) % cap, trials -= 1,
\* then either return Some(val) or the next round's slot = &mut self.slots[pos]
PutNext(t) ==
    /\ pc[t] = "p_next"
    /\ LET old == curr.c1
           n == loc[t].trials - 1
       IN  /\ curr' = [curr EXCEPT !.c1 = old + 1]
           /\ loc' = [loc EXCEPT ![t].pos = CursorPos(old, loc[t].cap),
                                 ![t].trials = n,
                                 ![t].buf = IF n = 0 THEN 0 ELSE slots]
           /\ pc' = [pc EXCEPT ![t] = IF n = 0 THEN "p_giveup" ELSE "a_gate"]
    /\ heap' = Referenced(heap, loc')
    /\ UNCHANGED <<slots, visitor_counter, miss_count, configure,
                   reset_handle, applied, held, ops,
                   ctor, probe, refilling, origin>>

\* return Some(val): the guard is dropped, the caller owns val again
PutGiveUp(t) ==
    /\ pc[t] = "p_giveup"
    /\ visitor_counter' = Unregistered(visitor_counter)
    /\ held' = [held EXCEPT ![t] = @ \cup {loc[t].val}]
    /\ pc' = [pc EXCEPT ![t] = "idle"]
    /\ loc' = [loc EXCEPT ![t] = Loc0]
    /\ UNCHANGED <<heap, slots, curr, miss_count, configure, reset_handle, applied, ops,
                   ctor, probe, refilling, origin>>

(***************************************************************************)
(* The caller discards a value it owns.                                    *)
(***************************************************************************)
Drop(t, v) ==
    /\ pc[t] = "idle"
    /\ v \in held[t]
    /\ held' = [held EXCEPT ![t] = @ \ {v}]
    /\ origin' = Freed(origin, v)
    /\ UNCHANGED <<heap, slots, curr, visitor_counter, miss_count, configure,
                   reset_handle, applied, pc, loc, ops,
                   ctor, probe, refilling>>

(***************************************************************************)
(* PoolManager::allow_expansion, PoolManager::expand                       *)
(***************************************************************************)
\* an expansion that is taken to be enabled whatever the configuration
expansion_assumed == TRUE

\* self.configure.load() & CONFIG_ALLOW_EXPANSION > 0
expansion_enabled == BitAnd(configure, CONFIG_ALLOW_EXPANSION) > 0

\* an update_config that flips the bit next to the one of the mask
update_config_next(mask) == BitXor(configure, 2 * mask)

\* update_config: the compare_exchange that flips the bit of the mask
update_config(mask) == BitXor(configure, mask)

AllowExpansion(t, allow) ==
    /\ pc[t] = "idle"
    /\ expansion_enabled # allow
    /\ configure' = update_config(CONFIG_ALLOW_EXPANSION)
    /\ UNCHANGED <<heap, slots, curr, visitor_counter, miss_count,
                   reset_handle, applied, pc, loc, held, ops,
                   ctor, probe, refilling, origin>>

\* count -= 1 on a usize that is 0: a build with overflow checks panics, a
\* build without them wraps
Underflows(count) == count = 0

\* count - 1 on the usize; from usize::MAX on the further decrements stay
\* above the spin period and are not told apart
Decremented(count) == IF count > 0 THEN count - 1 ELSE -1

\* a backoff that yields from the first failure on: count < 8, the value
\* count starts with
YieldsFromStart(count) == count >= 0 /\ count < 8

\* count < 4 on the usize
Yields(count) == count >= 0 /\ count < 4

\* the call, the check of expansion_enabled and of the upper limit
ExpandEntry(t, additional, block) ==
    /\ pc[t] = "idle"
    /\ ops[t] > 0
    /\ ops' = [ops EXCEPT ![t] = @ - 1]
    /\ IF expansion_enabled /\ ~(Len(Buckets) > EXPANSION_CAP)
       THEN /\ pc' = [pc EXCEPT ![t] = "x_raise"]
            /\ loc' = [loc EXCEPT ![t] = [Loc0 EXCEPT !.additional = additional,
                                                      !.block = block]]
       ELSE UNCHANGED <<pc, loc>>
    /\ UNCHANGED <<heap, slots, curr, visitor_counter, miss_count, configure,
                   reset_handle, applied, held,
                   ctor, probe, refilling, origin>>

\* the calls of expand that keep the pool within MaxBuckets buckets
ExpandCall(t, additional, block) ==
    /\ Len(Buckets) + additional <= MaxBuckets
    /\ ExpandEntry(t, additional, block)

\* a compare_exchange on the barrier that succeeds whatever the barrier is
BarrierTaken(barrier) == TRUE

\* compare_exchange(false, true) on the barrier finds it lowered
BarrierLowered(barrier) == barrier = FALSE

\* compare_exchange_weak(false, true) on the barrier: it fails when the
\* barrier is raised, and may fail although it is not
ExpandRaise(t) ==
    /\ pc[t] = "x_raise"
    /\ \/ /\ BarrierLowered(visitor_counter.barrier)
          /\ visitor_counter' = [visitor_counter EXCEPT !.barrier = TRUE]
          /\ loc' = [loc EXCEPT ![t].count = 8]
          /\ pc' = [pc EXCEPT ![t] = "x_wait"]
       \/ /\ loc' = [loc EXCEPT ![t] = Loc0]
          /\ pc' = [pc EXCEPT ![t] = "idle"]
          /\ UNCHANGED visitor_counter
    /\ UNCHANGED <<heap, slots, curr, miss_count, configure, reset_handle, applied,
                   held, ops,
                   ctor, probe, refilling, origin>>

\* one round of the loop that waits for the visitors to leave:
\* compare_exchange(1, 0) on the visitor count
ExpandWait(t) ==
    /\ pc[t] = "x_wait"
    /\ IF visitor_counter.count = 1
       THEN /\ visitor_counter' = [visitor_counter EXCEPT !.count = 0]
            /\ loc' = [loc EXCEPT ![t].safe = TRUE]
            /\ pc' = [pc EXCEPT ![t] = "x_add"]
       ELSE /\ \E checked \in BOOLEAN :
                  LET c == Decremented(loc[t].count)
                  IN  IF Underflows(loc[t].count) /\ checked
                      THEN /\ pc' = [pc EXCEPT ![t] = "panicked"]
                           /\ loc' = [loc EXCEPT ![t] = Loc0]
                      ELSE /\ loc' = [loc EXCEPT ![t].count = c]
                           /\ pc' = [pc EXCEPT ![t] =
                                        IF ~Yields(c) /\ ~loc[t].block
                                        THEN "x_restore" ELSE "x_wait"]
            /\ UNCHANGED visitor_counter
    /\ UNCHANGED <<heap, slots, curr, miss_count, configure, reset_handle, applied,
                   held, ops,
                   ctor, probe, refilling, origin>>

\* add_slots(count, true): count new buckets, filled by the builder
add_slots(buckets, count) == buckets \o FilledBuckets(count, LiveValues)

\* the address of a buffer the allocator has free
NewBuffer == NthFree(DOMAIN heap, 1, 1)

\* the buffers some thread holds a bucket reference into
BuffersInUse(l) == {l[t].buf : t \in Threads}

\* self.add_slots(additional, true): growing the Vec either extends its
\* buffer where it is or moves the buckets to a new buffer
ExpandAdd(t) ==
    /\ pc[t] = "x_add"
    /\ \E moved \in BOOLEAN :
          LET grown == add_slots(Buckets, loc[t].additional)
              to == IF moved THEN NewBuffer ELSE slots
          IN  /\ slots' = to
              /\ heap' = [a \in ((DOMAIN heap) \cap BuffersInUse(loc)) \cup {to} |->
                            IF a = to THEN grown ELSE heap[a]]
              /\ origin' = Built(origin, ValuesOf(grown) \ ValuesOf(Buckets))
    /\ pc' = [pc EXCEPT ![t] = "x_miss"]
    /\ UNCHANGED <<curr, visitor_counter, miss_count, configure, reset_handle, applied,
                   loc, held, ops,
                   ctor, probe, refilling>>

\* self.miss_count.store(0)
ExpandMiss(t) ==
    /\ pc[t] = "x_miss"
    /\ miss_count' = 0
    /\ pc' = [pc EXCEPT ![t] = "x_restore"]
    /\ UNCHANGED <<heap, slots, curr, visitor_counter, configure, reset_handle, applied,
                   loc, held, ops,
                   ctor, probe, refilling, origin>>

\* self.visitor_counter.0.store(1)
ExpandRestore(t) ==
    /\ pc[t] = "x_restore"
    /\ visitor_counter' = [visitor_counter EXCEPT !.count = 1]
    /\ pc' = [pc EXCEPT ![t] = "x_lower"]
    /\ UNCHANGED <<heap, slots, curr, miss_count, configure, reset_handle, applied,
                   loc, held, ops,
                   ctor, probe, refilling, origin>>

\* self.visitor_counter.1.store(false), and the return of safe
ExpandLower(t) ==
    /\ pc[t] = "x_lower"
    /\ visitor_counter' = [visitor_counter EXCEPT !.barrier = FALSE]
    /\ pc' = [pc EXCEPT ![t] = "idle"]
    /\ loc' = [loc EXCEPT ![t] = Loc0]
    /\ UNCHANGED <<heap, slots, curr, miss_count, configure, reset_handle, applied,
                   held, ops,
                   ctor, probe, refilling, origin>>

(***************************************************************************)
(* PoolManager::reset_handle                                               *)
(***************************************************************************)
ResetCall(t, handle) ==
    /\ pc[t] = "idle"
    /\ ops[t] > 0
    /\ ops' = [ops EXCEPT ![t] = @ - 1]
    /\ pc' = [pc EXCEPT ![t] = "r_cas"]
    /\ loc' = [loc EXCEPT ![t] = [Loc0 EXCEPT !.count = 8, !.handle = handle]]
    /\ UNCHANGED <<heap, slots, curr, visitor_counter, miss_count, configure,
                   reset_handle, applied, held,
                   ctor, probe, refilling, origin>>

\* one round of the loop: compare_exchange(false, true) on the barrier; a
\* failed round that does not yield returns when the 16ms have passed
ResetCas(t) ==
    /\ pc[t] = "r_cas"
    /\ IF BarrierLowered(visitor_counter.barrier)
       THEN /\ visitor_counter' = [visitor_counter EXCEPT !.barrier = TRUE]
            /\ pc' = [pc EXCEPT ![t] = "r_write"]
            /\ UNCHANGED loc
       ELSE /\ \E checked \in BOOLEAN, timeout \in BOOLEAN :
                  LET c == Decremented(loc[t].count)
                  IN  IF Underflows(loc[t].count) /\ checked
                      THEN /\ pc' = [pc EXCEPT ![t] = "panicked"]
                           /\ loc' = [loc EXCEPT ![t] = Loc0]
                      ELSE IF ~Yields(c) /\ timeout
                      THEN /\ pc' = [pc EXCEPT ![t] = "idle"]
                           /\ loc' = [loc EXCEPT ![t] = Loc0]
                      ELSE /\ loc' = [loc EXCEPT ![t].count = c]
                           /\ UNCHANGED pc
            /\ UNCHANGED visitor_counter
    /\ UNCHANGED <<heap, slots, curr, miss_count, configure, reset_handle, applied,
                   held, ops,
                   ctor, probe, refilling, origin>>

\* self.reset_handle.replace(handle)
ResetWrite(t) ==
    /\ pc[t] = "r_write"
    /\ reset_handle' = loc[t].handle
    /\ pc' = [pc EXCEPT ![t] = "r_lower"]
    /\ UNCHANGED <<heap, slots, curr, visitor_counter, miss_count, configure,
                   loc, held, ops, applied,
                   ctor, probe, refilling, origin>>

\* self.visitor_counter.1.store(false)
ResetLower(t) ==
    /\ pc[t] = "r_lower"
    /\ visitor_counter' = [visitor_counter EXCEPT !.barrier = FALSE]
    /\ pc' = [pc EXCEPT ![t] = "idle"]
    /\ loc' = [loc EXCEPT ![t] = Loc0]
    /\ UNCHANGED <<heap, slots, curr, miss_count, configure, reset_handle, applied,
                   held, ops,
                   ctor, probe, refilling, origin>>

(***************************************************************************)
(* PoolManager::refill                                                     *)
(***************************************************************************)
\* the elements to put: additional, but not more than the empty slots
Quota(additional, empty_slots) ==
    IF UGt(additional, empty_slots) THEN empty_slots ELSE additional

\* a refill that does not count the elements it has put
CountKept(count) == count

\* count += 1 after a put that returned None
Counted(count) == count + 1

\* the first barrier check of VisitorGuard::register(_, false) in the put
\* that refill calls
PutEntry == IF visitor_counter.barrier THEN "p_reg" ELSE "p_visit"

\* the call: cap, empty_slots, the return of 0 when they are 0, and quota
RefillCall(t, additional) ==
    /\ pc[t] = "idle"
    /\ refilling[t].at \in {"none", "done"}
    /\ ops[t] > 0
    /\ ops' = [ops EXCEPT ![t] = @ - 1]
    /\ LET cap == capacity
           empty_slots == cap - len
           f == [NoRefill EXCEPT !.additional = additional, !.cap = cap,
                                 !.empty_slots = empty_slots]
       IN  IF empty_slots = 0
           THEN /\ refilling' = [refilling EXCEPT ![t] = [f EXCEPT !.at = "done"]]
                /\ UNCHANGED pc
           ELSE /\ refilling' = [refilling EXCEPT ![t] =
                                    [f EXCEPT !.at = "loop",
                                              !.quota = Quota(additional, empty_slots)]]
                /\ pc' = [pc EXCEPT ![t] = "f_loop"]
    /\ UNCHANGED <<heap, slots, curr, visitor_counter, miss_count, configure,
                   reset_handle, applied, ctor, probe, loc, held, origin>>

\* while count < quota: val = make_elem(&self.builder), runs = 0, and the
\* call of self.put(val); after the loop the return of count
RefillLoop(t) ==
    /\ pc[t] = "f_loop"
    /\ LET f == refilling[t]
       IN  IF UGt(f.quota, f.count)
           THEN /\ refilling' = [refilling EXCEPT ![t].at = "put",
                                                  ![t].val = make_elem,
                                                  ![t].runs = 0]
                /\ loc' = [loc EXCEPT ![t] = [Loc0 EXCEPT !.val = make_elem]]
                /\ origin' = Built(origin, {make_elem})
                /\ pc' = [pc EXCEPT ![t] = PutEntry]
           ELSE /\ refilling' = [refilling EXCEPT ![t].at = "done",
                                                  ![t].ret = f.count]
                /\ pc' = [pc EXCEPT ![t] = "idle"]
                /\ UNCHANGED <<loc, origin>>
    /\ UNCHANGED <<heap, slots, curr, visitor_counter, miss_count, configure,
                   reset_handle, applied, ctor, probe, held, ops>>

\* the put that refill has called has returned.  None: count += 1.
\* Some(ret): val = ret, runs += 1, the return of count when the 16ms have
\* passed or when, at every fourth run, len() is cap; or else the next call
\* of self.put(val).  The 16ms have passed after MaxRuns runs at the latest.
RefillBack(t) ==
    /\ pc[t] = "idle"
    /\ refilling[t].at = "put"
    /\ LET f == refilling[t]
           runs == f.runs + 1
       IN  IF f.val \notin held[t]
           THEN /\ refilling' = [refilling EXCEPT ![t].at = "loop",
                                                  ![t].count = Counted(f.count),
                                                  ![t].val = NULL]
                /\ pc' = [pc EXCEPT ![t] = "f_loop"]
                /\ UNCHANGED <<loc, held, origin>>
           ELSE \E timeout \in BOOLEAN :
                   /\ timeout \/ runs < MaxRuns
                   /\ held' = [held EXCEPT ![t] = @ \ {f.val}]
                   /\ IF timeout \/ (runs % 4 = 0 /\ len = f.cap)
                      THEN /\ refilling' = [refilling EXCEPT ![t].at = "done",
                                                             ![t].ret = f.count,
                                                             ![t].runs = runs,
                                                             ![t].val = NULL]
                           /\ origin' = Freed(origin, f.val)
                           /\ UNCHANGED <<pc, loc>>
                      ELSE /\ refilling' = [refilling EXCEPT ![t].runs = runs]
                           /\ UNCHANGED origin
                           /\ loc' = [loc EXCEPT ![t] = [Loc0 EXCEPT !.val = f.val]]
                           /\ pc' = [pc EXCEPT ![t] = PutEntry]
    /\ UNCHANGED <<heap, slots, curr, visitor_counter, miss_count, configure,
                   reset_handle, applied, ctor, probe, ops>>

(***************************************************************************)
(* Threads that call get and put, and discard values, in any order.        *)
(***************************************************************************)
\* the round of get or put after an access that returned Err
Advance(t) == IF loc[t].get THEN GetNext(t) ELSE PutNext(t)

\* the steps inside get, put and the bucket, after the call
PoolStep(t) ==
    \/ GetVisit(t)
    \/ GetCur(t)
    \/ GetCheckout(t)
    \/ GetStore(t)
    \/ GetRet(t)
    \/ GetDropGuard(t)
    \/ GetMiss(t)
    \/ PutVisit(t)
    \/ PutCur(t)
    \/ PutStore(t)
    \/ PutRelease(t)
    \/ PutRet(t)
    \/ PutGiveUp(t)
    \/ Advance(t)
    \/ AccessGate(t)
    \/ AccessLoad(t)
    \/ AccessOr(t)
    \/ AccessFailure(t)
    \/ Leave(t)

Next ==
    \E t \in Threads :
        \/ GetCall(t)
        \/ pc[t] = "idle" /\ \E v \in Returnable(t) : PutCall(t, v)
        \/ pc[t] = "idle" /\ \E v \in held[t] : Drop(t, v)
        \/ PoolStep(t)

Spec == Init /\ [][Next]_vars

(***************************************************************************)
(* The same threads with the PoolManager calls as well.                    *)
(***************************************************************************)
ManagerStep(t) ==
    \/ \E allow \in BOOLEAN : AllowExpansion(t, allow)
    \/ \E additional \in 1..MaxBuckets, block \in BOOLEAN :
          ExpandCall(t, additional, block)
    \/ ExpandRaise(t)
    \/ ExpandWait(t)
    \/ ExpandAdd(t)
    \/ ExpandMiss(t)
    \/ ExpandRestore(t)
    \/ ExpandLower(t)
    \/ \E handle \in Handles : ResetCall(t, handle)
    \/ ResetCas(t)
    \/ ResetWrite(t)
    \/ ResetLower(t)

InitFull ==
    /\ \E k \in {0, SLOT_CAP} :
          /\ slots = 1
          /\ heap = (1 :> <<Drained(Bucket2New({}), k)>>)
    /\ curr = [c0 |-> 0, c1 |-> 0]
    /\ visitor_counter = [count |-> 1, barrier |-> FALSE]
    /\ miss_count = 0
    /\ configure = 0
    /\ reset_handle = NoHandle
    /\ applied = {}
    /\ Constructed(1)
    /\ ThreadsIdle

NextFull ==
    \/ \E t \in Threads :
          \/ GetCall(t)
          \/ pc[t] = "idle" /\ \E v \in Returnable(t) : PutCall(t, v)
          \/ pc[t] = "idle" /\ \E v \in held[t] : Drop(t, v)
          \/ PutRegister(t)
          \/ PoolStep(t)
    \/ \E t \in Managers : ManagerStep(t)

SpecFull == InitFull /\ [][NextFull]_vars

(***************************************************************************)
(* The same threads and PoolManager calls, the callers handing to put only *)
(* values that get has returned to them.                                   *)
(***************************************************************************)
NextOwn ==
    \/ \E t \in Threads :
          \/ GetCall(t)
          \/ pc[t] = "idle" /\ \E v \in held[t] : PutCall(t, v)
          \/ pc[t] = "idle" /\ \E v \in held[t] : Drop(t, v)
          \/ PutRegister(t)
          \/ PoolStep(t)
    \/ \E t \in Managers : ManagerStep(t)

SpecOwn == InitFull /\ [][NextOwn]_vars

(***************************************************************************)
(* One thread that calls get and put one after the other, on a new pool of *)
(* any number of buckets.                                                  *)
(***************************************************************************)
InitSeq ==
    /\ \E size \in 1..MaxBuckets : make_pool(size) /\ Constructed(size)
    /\ pc = [t \in Threads |-> "idle"]
    /\ loc = [t \in Threads |-> Loc0]
    /\ held = [t \in Threads |-> {}]
    /\ ops = [t \in Threads |-> IF t = 1 THEN MaxSeqOps ELSE 0]

NextSeq ==
    \E t \in Threads :
        \/ GetCall(t)
        \/ pc[t] = "idle" /\ \E v \in Returnable(t) : PutCall(t, v)
        \/ PoolStep(t)

SpecSeq == InitSeq /\ [][NextSeq]_vars


(***************************************************************************)
(* Threads that each call get and then put the value back, again and       *)
(* again, on a newly constructed pool; what put hands back is discarded.   *)
(***************************************************************************)
InitFresh ==
    /\ make_pool(1)
    /\ Constructed(1)
    /\ ThreadsIdle

\* the calls thread t has made
Calls(t) == MaxOps - ops[t]

LoopGet(t) == Calls(t) % 2 = 0 /\ held[t] = {} /\ GetCall(t)

LoopPut(t) == Calls(t) % 2 = 1 /\ \E v \in held[t] : PutCall(t, v)

LoopDiscard(t) == Calls(t) % 2 = 0 /\ \E v \in held[t] : Drop(t, v)

NextLoop ==
    \E t \in Threads :
        \/ LoopGet(t)
        \/ LoopPut(t)
        \/ LoopDiscard(t)
        \/ PoolStep(t)

SpecLoop == InitFresh /\ [][NextLoop]_vars

(***************************************************************************)
(* One thread that calls get and put on a pool of any number of buckets    *)
(* whose put cursor has any value and whose first bucket has given out any *)
(* number of its values.  The put cursor takes any value, on the new pool, *)
(* by calls of put that find the pool full: each adds 2 * cap to it,       *)
(* modulo 2^64.  The reset hook is set or not.                             *)
(***************************************************************************)
\* the bucket counts of the pools: one more than the expansions reach, so
\* that a count that does not divide 2^64 is among them
MaxPoolSize == MaxBuckets + 1

\* the values of the put cursor: the lowest ones and those next to the
\* wrap of the usize
Cursors == (0 - CursorSpan)..CursorSpan

InitCur ==
    /\ \E size \in 1..MaxPoolSize, k \in 0..SLOT_CAP, c \in Cursors,
          h \in {NoHandle} \cup Handles :
          /\ slots = 1
          /\ heap = (1 :> [FilledBuckets(size, {}) EXCEPT ![1] = Drained(@, k)])
          /\ curr = [c0 |-> 0, c1 |-> c]
          /\ reset_handle = h
          /\ Constructed(size)
    /\ visitor_counter = [count |-> 1, barrier |-> FALSE]
    /\ miss_count = 0
    /\ configure = 0
    /\ applied = {}
    /\ pc = [t \in Threads |-> "idle"]
    /\ loc = [t \in Threads |-> Loc0]
    /\ held = [t \in Threads |-> {}]
    /\ ops = [t \in Threads |-> IF t = 1 THEN MaxOps ELSE 0]

SpecCur == InitCur /\ [][NextSeq]_vars

(***************************************************************************)
(* One thread that enables the expansion of a new pool of one bucket and   *)
(* calls expand, with requests of any size up to EXPANSION_CAP buckets.    *)
(***************************************************************************)
\* the numbers of buckets asked for: the least, and those that end next to
\* EXPANSION_CAP
Requests == {1, EXPANSION_CAP - 1, EXPANSION_CAP}

InitCap ==
    /\ make_pool(1)
    /\ Constructed(1)
    /\ pc = [t \in Threads |-> "idle"]
    /\ loc = [t \in Threads |-> Loc0]
    /\ held = [t \in Threads |-> {}]
    /\ ops = [t \in Threads |-> IF t \in Managers THEN MaxOps ELSE 0]

NextCap ==
    \E t \in Managers :
        \/ \E allow \in BOOLEAN : AllowExpansion(t, allow)
        \/ \E additional \in Requests, block \in BOOLEAN :
              ExpandEntry(t, additional, block)
        \/ ExpandRaise(t)
        \/ ExpandWait(t)
        \/ ExpandAdd(t)
        \/ ExpandMiss(t)
        \/ ExpandRestore(t)
        \/ ExpandLower(t)

SpecCap == InitCap /\ [][NextCap]_vars

(***************************************************************************)
(* Threads that each call get and then put the value back, again and       *)
(* again, on a new pool of any number of buckets; the first thread makes   *)
(* the longer run.                                                         *)
(***************************************************************************)
\* the calls thread t may make
Budget(t) == IF t = 1 THEN MaxSeqOps ELSE MaxOps

InitAlt ==
    /\ \E size \in 1..MaxBuckets : make_pool(size) /\ Constructed(size)
    /\ pc = [t \in Threads |-> "idle"]
    /\ loc = [t \in Threads |-> Loc0]
    /\ held = [t \in Threads |-> {}]
    /\ ops = [t \in Threads |-> Budget(t)]

\* the calls thread t has made
AltCalls(t) == Budget(t) - ops[t]

AltGet(t) == AltCalls(t) % 2 = 0 /\ held[t] = {} /\ GetCall(t)

AltPut(t) == AltCalls(t) % 2 = 1 /\ \E v \in held[t] : PutCall(t, v)

AltDiscard(t) == AltCalls(t) % 2 = 0 /\ \E v \in held[t] : Drop(t, v)

NextAlt ==
    \E t \in Threads :
        \/ AltGet(t)
        \/ AltPut(t)
        \/ AltDiscard(t)
        \/ PoolStep(t)

SpecAlt == InitAlt /\ [][NextAlt]_vars

(***************************************************************************)
(* Threads that all use the pool through PoolManager as well: each calls   *)
(* get, put, expand and reset_handle in any order.                         *)
(***************************************************************************)
\* a pool of one bucket of which every value has been taken, by SLOT_CAP
\* calls of get on the new pool one after the other, and discarded
InitExcl ==
    /\ slots = 1
    /\ heap = (1 :> <<Drained(Bucket2New({}), SLOT_CAP)>>)
    /\ curr = [c0 |-> 0, c1 |-> 0]
    /\ visitor_counter = [count |-> 1, barrier |-> FALSE]
    /\ miss_count = 0
    /\ configure = 0
    /\ reset_handle = NoHandle
    /\ applied = {}
    /\ Constructed(1)
    /\ ThreadsIdle

NextExcl ==
    \E t \in Threads :
        \/ GetCall(t)
        \/ pc[t] = "idle" /\ \E v \in Returnable(t) : PutCall(t, v)
        \/ PutRegister(t)
        \/ PoolStep(t)
        \/ ManagerStep(t)

SpecExcl == InitExcl /\ [][NextExcl]_vars

(***************************************************************************)
(* Threads that call get and put, with a first thread that enables the     *)
(* expansion and calls expand as well, on a new pool.  A thread that is in *)
(* expand is scheduled again and again: it goes on to its next step.       *)
(***************************************************************************)
ExpandStep(t) ==
    \/ ExpandRaise(t)
    \/ ExpandWait(t)
    \/ ExpandAdd(t)
    \/ ExpandMiss(t)
    \/ ExpandRestore(t)
    \/ ExpandLower(t)

NextLive ==
    \/ \E t \in Threads :
          \/ GetCall(t)
          \/ pc[t] = "idle" /\ \E v \in Returnable(t) : PutCall(t, v)
          \/ PutRegister(t)
          \/ PoolStep(t)
    \/ \E t \in Managers :
          \/ \E allow \in BOOLEAN : AllowExpansion(t, allow)
          \/ \E additional \in 1..MaxBuckets, block \in BOOLEAN :
                ExpandCall(t, additional, block)
          \/ ExpandStep(t)

FairExpand ==
    \A t \in Managers :
        /\ WF_vars(ExpandRaise(t))
        /\ WF_vars(ExpandWait(t))
        /\ WF_vars(ExpandAdd(t))
        /\ WF_vars(ExpandMiss(t))
        /\ WF_vars(ExpandRestore(t))
        /\ WF_vars(ExpandLower(t))

SpecLive == InitFresh /\ [][NextLive]_vars /\ FairExpand

(***************************************************************************)
(* One thread that calls get again and again on a pool as new() or         *)
(* with_size(size) has constructed it, for any size.                       *)
(***************************************************************************)
\* the sizes asked for: up to the least that gives MaxPoolSize buckets
Sizes == 0..(SLOT_CAP * MaxPoolSize)

InitNew ==
    /\ \/ \E size \in Sizes : make_pool(with_size(size)) /\ ctor = Sized(size)
       \/ make_pool(POOL_SIZE) /\ ctor = [name |-> "new", size |-> 0]
    /\ probe = NoProbe
    /\ refilling = [t \in Threads |-> NoRefill]
    /\ origin = NewOrigin
    /\ pc = [t \in Threads |-> "idle"]
    /\ loc = [t \in Threads |-> Loc0]
    /\ held = [t \in Threads |-> {}]
    /\ ops = [t \in Threads |-> IF t = 1 THEN MaxSeqOps ELSE 0]

\* the steps inside get and the bucket, after the call
GetStep(t) ==
    \/ GetVisit(t)
    \/ GetCur(t)
    \/ GetCheckout(t)
    \/ GetStore(t)
    \/ GetRet(t)
    \/ GetDropGuard(t)
    \/ GetMiss(t)
    \/ Advance(t)
    \/ AccessGate(t)
    \/ AccessLoad(t)
    \/ AccessOr(t)
    \/ AccessFailure(t)
    \/ Leave(t)

NextNew ==
    \E t \in Threads :
        \/ GetCall(t)
        \/ GetStep(t)

SpecNew == InitNew /\ [][NextNew]_vars

(***************************************************************************)
(* One thread that calls get, put and refill on a pool of any number of    *)
(* buckets whose first bucket has given out any number of its values.      *)
(***************************************************************************)
\* the numbers of elements asked of refill: none, fewer than a bucket has
\* slots, as many, and more
Additions == 0..(SLOT_CAP + 1)

InitRefill ==
    /\ \E size \in 1..MaxBuckets, k \in 0..SLOT_CAP :
          /\ slots = 1
          /\ heap = (1 :> [FilledBuckets(size, {}) EXCEPT ![1] = Drained(@, k)])
          /\ Constructed(size)
    /\ curr = [c0 |-> 0, c1 |-> 0]
    /\ visitor_counter = [count |-> 1, barrier |-> FALSE]
    /\ miss_count = 0
    /\ configure = 0
    /\ reset_handle = NoHandle
    /\ applied = {}
    /\ pc = [t \in Threads |-> "idle"]
    /\ loc = [t \in Threads |-> Loc0]
    /\ held = [t \in Threads |-> {}]
    /\ ops = [t \in Threads |-> IF t = 1 THEN MaxOps ELSE 0]

\* thread t is not in a call of refill
OutOfRefill(t) == refilling[t].at \in {"none", "done"}

NextRefill ==
    \E t \in Threads :
        \/ OutOfRefill(t) /\ GetCall(t)
        \/ OutOfRefill(t) /\ pc[t] = "idle"
              /\ \E v \in Returnable(t) : PutCall(t, v)
        \/ \E additional \in Additions : RefillCall(t, additional)
        \/ RefillLoop(t)
        \/ RefillBack(t)
        \/ PoolStep(t)

SpecRefill == InitRefill /\ [][NextRefill]_vars

(***************************************************************************)
(* Threads that call get and put in any order, with a first thread that    *)
(* calls refill as well, on a pool of one bucket that is full or has given *)
(* out all its values.                                                     *)
(***************************************************************************)
\* the numbers of elements asked of refill here: none, and fewer than a
\* bucket has slots
FewAdditions == 0..2

NextFill ==
    \/ \E t \in Threads :
          \/ OutOfRefill(t) /\ GetCall(t)
          \/ OutOfRefill(t) /\ pc[t] = "idle"
                /\ \E v \in Returnable(t) : PutCall(t, v)
          \/ PoolStep(t)
    \/ \E t \in Managers :
          \/ \E additional \in FewAdditions : RefillCall(t, additional)
          \/ RefillLoop(t)
          \/ RefillBack(t)

SpecFill == InitFull /\ [][NextFill]_vars

(***************************************************************************)
(* utils.rs on its own: enter in both modes, and check_len, applied to     *)
(* every u16.                                                              *)
(***************************************************************************)
\* the values of a u16
Words == 0..(2 ^ 16 - 1)

InitUtils ==
    /\ make_pool(1)
    /\ ctor = Sized(SLOT_CAP)
    /\ probe \in {[NoProbe EXCEPT !.src = src] : src \in Words}
    /\ refilling = [t \in Threads |-> NoRefill]
    /\ origin = NewOrigin
    /\ pc = [t \in Threads |-> "idle"]
    /\ loc = [t \in Threads |-> Loc0]
    /\ held = [t \in Threads |-> {}]
    /\ ops = [t \in Threads |-> 0]

\* enter(src, get)
ApplyEnter(get) ==
    /\ probe.fn = "none"
    /\ probe' = [probe EXCEPT !.fn = "enter", !.get = get,
                              !.res = enter(probe.src, get)]
    /\ UNCHANGED <<heap, slots, curr, visitor_counter, miss_count, configure,
                   reset_handle, applied, ctor, refilling, pc, loc, held, ops,
                   origin>>

\* check_len(src)
ApplyCheckLen ==
    /\ probe.fn = "none"
    /\ probe' = [probe EXCEPT !.fn = "check_len", !.len = check_len(probe.src)]
    /\ UNCHANGED <<heap, slots, curr, visitor_counter, miss_count, configure,
                   reset_handle, applied, ctor, refilling, pc, loc, held, ops,
                   origin>>

NextUtils ==
    \/ \E get \in BOOLEAN : ApplyEnter(get)
    \/ ApplyCheckLen

SpecUtils == InitUtils /\ [][NextUtils]_vars

(***************************************************************************)
(* The claims.                                                             *)
(***************************************************************************)
\* thread t is between a successful access and the end of its leave
Holding(t) ==
    pc[t] \in {"g_checkout", "g_leave", "p_store", "p_release", "p_leave"}

\* the slot that thread t has located or locked
SlotOf(t) == <<loc[t].buf, loc[t].pos, loc[t].i>>

\* the places that own value v: bucket slots, callers, calls in progress
Owners(v) ==
    {<<"slot", k, j>> : <<k, j>> \in
        {<<k, j>> \in (1..Len(Buckets)) \X (1..SLOT_CAP) : Buckets[k].slot[j] = v}}
    \cup {<<"held", t>> : t \in {u \in Threads : v \in held[u]}}
    \cup {<<"call", t>> : t \in {u \in Threads : loc[u].val = v}}

Quiescent == \A t \in Threads : pc[t] = "idle"

RECURSIVE HeldCount(_)
HeldCount(T) ==
    IF T = {} THEN 0
    ELSE LET t == CHOOSE u \in T : TRUE
         IN  Cardinality(held[t]) + HeldCount(T \ {t})

\* C1: under any interleaving of get and put calls no value has two owners:
\* a value is in at most one of the bucket slots, the callers' hands and the
\* calls in progress, and in that one only once.
C1_ExclusiveOwner ==
    \A v \in LiveValues : Cardinality(Owners(v)) <= 1

\* C1 witness: a caller owns a value got from the pool while another thread
\* has just checked a value out of the same bucket.
C1_Witness ==
    \E t, u \in Threads :
        /\ t # u
        /\ held[t] # {}
        /\ pc[u] = "g_leave"
        /\ loc[u].val # NULL

\* C2: for every bucket and slot at most one thread is between a successful
\* access of that slot and its matching leave.
C2_OneLockHolder ==
    \A t, u \in Threads :
        (t # u /\ Holding(t) /\ Holding(u)) => SlotOf(t) # SlotOf(u)

\* C2 witness: a thread holds the lock bit of a slot while another thread,
\* having located the same slot, is about to fetch_or its lock bit.
C2_Witness ==
    \E t, u \in Threads :
        /\ t # u
        /\ Holding(t)
        /\ pc[u] = "a_or"
        /\ SlotOf(t) = SlotOf(u)

\* C3: whenever the fetch_or of access takes the lock bit of slot i, the
\* presence bit of slot i is at that moment 1 for a get (which goes on to
\* checkout) and 0 for a put (which goes on to release).
C3_LockedAsLocated ==
    [][\A t \in Threads :
          /\ (pc[t] = "a_or" /\ pc'[t] = "g_checkout")
                => BitAt(Bkt(t).bitmap, 2 * loc[t].i) = 1
          /\ (pc[t] = "a_or" /\ pc'[t] = "p_store")
                => BitAt(Bkt(t).bitmap, 2 * loc[t].i) = 0]_vars

\* C4: a put that returns None has installed its value in a slot that was
\* empty: the release of every put that goes on to return None finds the
\* slot null and leaves the value in it.
C4_NoneMeansInstalled ==
    [][\A t \in Threads :
          (pc[t] = "p_release" /\ pc'[t] = "p_leave")
              => /\ Bkt(t).slot[loc[t].i + 1] = NULL
                 /\ heap'[loc[t].buf][loc[t].pos + 1].slot[loc[t].i + 1]
                        = loc[t].val]_vars

\* C5: with threads that each call get and then put, on a new pool, whenever
\* no call is in progress len() plus the number of values the threads hold
\* is capacity().
C5_NothingLeaks ==
    Quiescent => len + HeldCount(Threads) = capacity

\* thread u is registered as a visitor and scans the buckets: it is past
\* the fetch_add of register and has not dropped its guard
Scanning(u) ==
    pc[u] \in {"g_cur", "g_checkout", "g_leave", "g_store", "g_ret", "g_next",
               "g_unreg", "p_cur", "p_store", "p_release", "p_leave", "p_ret",
               "p_next", "p_giveup", "a_gate", "a_load", "a_or", "a_fail"}

\* thread t is in expand, after its compare_exchange(1, 0) has succeeded and
\* before it has lowered the barrier
Appending(t) ==
    pc[t] \in {"x_add", "x_miss", "x_restore", "x_lower"} /\ loc[t].safe

\* C6: while a thread is in expand between its successful compare_exchange
\* of the visitor count and the lowering of the barrier, no other thread is
\* in the bucket-scanning part of get or put.
C6_ExpandIsAlone ==
    \A t, u \in Threads : (t # u /\ Appending(t)) => ~Scanning(u)

\* thread t is inside a call of get
InGet(t) == pc[t] # "idle" /\ loc[t].get

\* the number of steps a call of get can still take, at most: a round on a
\* bucket takes at most 2 * TRIALS_COUNT + 3 steps
GetRank(p, l) ==
    LET F == (2 * TRIALS_COUNT + 3) * l.trials - 7
    IN  CASE p = "g_visit" -> (2 * TRIALS_COUNT + 3) * MaxBuckets + 4
          [] p = "g_cur" -> F + 2 * TRIALS_COUNT + 2
          [] p = "a_gate" -> F + 2 * TRIALS_COUNT + 1
          [] p = "a_load" -> F + 2 * l.atrials
          [] p = "a_or" -> F + 2 * l.atrials + 1
          [] p = "a_fail" -> F
          [] p = "g_next" -> F - 1
          [] p = "g_checkout" -> 4
          [] p = "g_leave" -> 3
          [] p \in {"g_store", "g_unreg"} -> 2
          [] p \in {"g_ret", "g_miss"} -> 1
          [] OTHER -> 0

\* C7: a call of get is never made to wait, and each of its steps brings
\* it nearer to its return: a thread that can call get can do so whatever
\* the barrier is, the leave of a get finds the lock bit that its access
\* has set (its loop ends at the first fetch_xor), and every step that a
\* thread inside get takes lowers GetRank, which is positive inside get and
\* 0 after the return.
C7_GetTerminates ==
    [][\A t \in Threads :
          /\ (pc[t] = "idle" /\ ops[t] > 0) => ENABLED GetCall(t)
          /\ InGet(t) => GetRank(pc[t], loc[t]) > 0
          /\ (InGet(t) /\ pc[t] = "g_leave")
                => BitAt(Bkt(t).bitmap, 2 * loc[t].i + 1) = 1
          /\ (InGet(t) /\ <<pc[t], loc[t]>>' # <<pc[t], loc[t]>>)
                => GetRank(pc'[t], loc'[t]) < GetRank(pc[t], loc[t])]_vars

\* C7 witness: a thread is in the last round of a get, at the last trial
\* of access, while the barrier is raised by an expand that waits.
C7_Witness ==
    \E t, u \in Threads :
        /\ InGet(t)
        /\ pc[t] = "a_or"
        /\ loc[t].atrials = 0
        /\ visitor_counter.barrier
        /\ pc[u] = "x_wait"

\* C8: a put that waits at the barrier is waited on by a thread that will
\* lower the barrier: while a thread is in the wait loop of register with
\* the barrier raised, some thread is in expand or reset_handle between
\* the raising of the barrier and its lowering.
C8_PutIsNotLeftWaiting ==
    \A t \in Threads :
        (pc[t] = "p_reg" /\ visitor_counter.barrier)
            => \E u \in Threads :
                  pc[u] \in {"x_wait", "x_add", "x_miss", "x_restore",
                             "x_lower", "r_write", "r_lower"}

\* C9: with one thread, a call of get constructs a value only when every
\* bucket is empty: at the miss of a get len() is 0.
C9_MissOnlyWhenEmpty ==
    \A t \in Threads : pc[t] = "g_miss" => len = 0

\* C10: a call of get that returns a constructed value has added exactly 1
\* to miss_count, and a call that returns a value of the pool leaves
\* miss_count as it is: the return at the raised barrier and the return
\* after the scan add 1, the return of a checked out value adds nothing.
C10_MissesAreCounted ==
    [][\A t \in Threads :
          /\ (pc[t] = "idle" /\ pc'[t] = "idle" /\ held'[t] # held[t]
                 /\ ops'[t] # ops[t] /\ held[t] \subseteq held'[t])
                => miss_count' = miss_count + 1
          /\ (pc[t] = "g_miss" /\ pc'[t] = "idle")
                => miss_count' = miss_count + 1
          /\ (pc[t] = "g_ret" /\ pc'[t] = "idle")
                => miss_count' = miss_count]_vars

\* the number of values in the slots of the buckets bs
RECURSIVE Stored(_, _)
Stored(bs, k) ==
    IF k = 0 THEN 0 ELSE Cardinality(SlotValues(bs[k])) + Stored(bs, k - 1)

\* the number of values in the pool
Occupied == Stored(Buckets, Len(Buckets))

\* thread t is inside a call of put
InPut(t) == pc[t] # "idle" /\ ~loc[t].get

\* C11: with one thread, whatever the number of buckets and the put
\* cursor: a put gives its value back only when len() = capacity(); the
\* release of a put finds its slot empty and leaves the value in it, which
\* is the one step of the put that changes the slots, so that the pool has
\* exactly one value more; and len() is the number of values in the pool
\* both when put is called and when it returns None, so that len() has
\* grown by exactly 1.
C11_PutFindsTheEmptySlot ==
    [][\A t \in Threads :
          /\ (pc[t] = "idle" /\ InPut(t)') => len = Occupied
          /\ pc[t] = "p_giveup" => len = capacity
          /\ (InPut(t) /\ pc[t] # "p_release") => Occupied' = Occupied
          /\ pc[t] = "p_release"
                => /\ Bkt(t).slot[loc[t].i + 1] = NULL
                   /\ heap'[loc[t].buf][loc[t].pos + 1].slot[loc[t].i + 1]
                          = loc[t].val
                   /\ Occupied' = Occupied + 1
          /\ (pc[t] = "p_ret" /\ pc'[t] = "idle")
                => len' = Occupied']_vars

\* C11 witness: a put on a pool of MaxPoolSize buckets has installed its
\* value after it was turned away at least three times, with a cursor that
\* had wrapped.
C11_Witness ==
    \E t \in Threads :
        /\ pc[t] = "p_ret"
        /\ loc[t].cap = MaxPoolSize
        /\ loc[t].trials <= PutTrials(loc[t].cap) - 3
        /\ curr.c1 < MaxPoolSize

\* every slot of every bucket holds a value
AllOccupied == Occupied = capacity

\* thread t is inside a put that has not installed its value, and every
\* slot holds a value: with one thread, a put that was called on a pool of
\* which every slot held a value
OnFullPool(t) ==
    InPut(t) /\ AllOccupied /\ pc[t] \notin {"p_leave", "p_ret"}

\* C12: with one thread, a put on a pool of which every slot holds a value
\* is called with every hint at SLOT_CAP; none of its steps takes a lock
\* bit, changes a state word, a slot or miss_count, or calls the reset
\* hook; and it returns by handing the caller the value it was given, with
\* every hint at SLOT_CAP again.
C12_FullPoolGivesBack ==
    [][\A t \in Threads :
          /\ (pc[t] = "idle" /\ InPut(t)' /\ AllOccupied)
                => \A k \in 1..Len(Buckets) : Buckets[k].len = SLOT_CAP
          /\ OnFullPool(t)
                => /\ pc'[t] \notin {"p_store", "p_release", "p_leave", "p_ret"}
                   /\ \A k \in 1..Len(Buckets) :
                         /\ Buckets'[k].bitmap = Buckets[k].bitmap
                         /\ Buckets'[k].slot = Buckets[k].slot
                   /\ miss_count' = miss_count
                   /\ applied' = applied
                   /\ pc'[t] = "idle"
                         => /\ pc[t] = "p_giveup"
                            /\ held'[t] = held[t] \cup {loc[t].val}
                            /\ loc[t].val # NULL
                            /\ len' = len
                            /\ \A k \in 1..Len(Buckets) :
                                  Buckets'[k].len = SLOT_CAP]_vars

\* C12 witness: a put is about to give its value back on a pool of
\* MaxPoolSize full buckets that has a reset hook.
C12_Witness ==
    \E t \in Threads :
        /\ pc[t] = "p_giveup"
        /\ AllOccupied
        /\ Len(Buckets) = MaxPoolSize
        /\ reset_handle # NoHandle

\* thread t is the only thread that has called the pool
Alone(t) ==
    \A u \in Threads \ {t} : pc[u] = "idle" /\ ops[u] = Budget(u)

\* C13: on a new pool of any number of buckets, as long as one thread
\* alone calls get and then put with the value it got, again and again:
\* miss_count is 0, and after every put len() is capacity(), the len() of
\* the new pool, and the thread has no value left in its hands.
C13_RoundTripKeepsLen ==
    \A t \in Threads :
        Alone(t)
            => /\ miss_count = 0
               /\ (pc[t] = "idle" /\ AltCalls(t) % 2 = 0)
                     => (len = capacity /\ held[t] = {})

\* C13 witness: the first thread has made all its calls, alone, on a pool
\* of MaxBuckets buckets.
C13_Witness ==
    /\ Alone(1)
    /\ pc[1] = "idle"
    /\ ops[1] = 0
    /\ Len(Buckets) = MaxBuckets

\* the reset hook has been called exactly once on value v, as far as the
\* record a says anything about v
ResetOnce(a, v) == \A p \in a : p[1] = v => p[2] = 1

\* C14: with a reset hook set, the release of a put that installs its
\* value has called the hook on it exactly once when the value is in the
\* slot, which is while the put has the lock bit of the slot and before its
\* leave gives the slot to a get;
\* and a value that a get checks out of a slot and returns, after a put
\* under the hook had installed it, has had exactly that one call.
C14_ResetBeforeVisible ==
    [][\A t \in Threads :
          /\ (pc[t] = "p_release" /\ pc'[t] = "p_leave"
                 /\ reset_handle # NoHandle
                 /\ Bkt(t).slot[loc[t].i + 1] = NULL)
                => /\ heap'[loc[t].buf][loc[t].pos + 1].slot[loc[t].i + 1]
                          = loc[t].val
                   /\ BitAt(Bkt(t).bitmap, 2 * loc[t].i + 1) = 1
                   /\ <<loc[t].val, 1>> \in applied'
                   /\ ResetOnce(applied', loc[t].val)
          /\ pc[t] = "g_checkout"
                => ResetOnce(applied, Bkt(t).slot[loc[t].i + 1])
          /\ pc[t] = "g_ret"
                => ResetOnce(applied, loc[t].val)]_vars

\* C14 witness: a get is about to return a value that a put has installed
\* under the reset hook.
C14_Witness ==
    \E t \in Threads :
        /\ pc[t] = "g_ret"
        /\ <<loc[t].val, 1>> \in applied

\* no thread is in a call of get or put that has bucket k as its slot
AtRest(k) == \A t \in Threads : pc[t] = "idle" \/ loc[t].pos # k - 1

\* C15: under any interleaving of get and put calls, for every bucket that
\* no call of get or put is at work on, the hint len is the number of
\* presence bits that are set in the state word.
C15_HintIsPopcount ==
    \A k \in 1..Len(Buckets) :
        AtRest(k) => Buckets[k].len = check_len(Buckets[k].bitmap)

\* C16: in every state, those in the middle of an access included, the
\* hint len of every bucket is within 0..SLOT_CAP.
C16_HintInWindow ==
    \A k \in 1..Len(Buckets) :
        Buckets[k].len >= 0 /\ Buckets[k].len <= SLOT_CAP

\* C17: whatever the calls of expand and their arguments, the pool never
\* has more than EXPANSION_CAP buckets.
C17_NeverAboveTheCap == Len(Buckets) <= EXPANSION_CAP

\* the bit of the configuration that allows the expansion is clear
Disabled == BitAnd(configure, CONFIG_ALLOW_EXPANSION) = 0

\* thread t calls expand and expand returns false at once
ExpandRefused(t) ==
    /\ pc[t] = "idle"
    /\ pc'[t] = "idle"
    /\ ops'[t] = ops[t] - 1
    /\ held' = held

\* C18: a new pool reports that the expansion is not enabled; and while
\* the expansion is disabled a call of expand does not go on to the
\* barrier: it returns false at once, and the buckets, miss_count, the
\* barrier and the visitor count are as they were.
C18_DisabledExpandIsRefused ==
    [][/\ (\E size \in 1..MaxBuckets : make_pool(size)) => ~expansion_enabled
       /\ \A t \in Threads :
             /\ (Disabled /\ pc[t] = "idle") => pc'[t] # "x_raise"
             /\ (Disabled /\ ExpandRefused(t))
                   => /\ heap' = heap
                      /\ slots' = slots
                      /\ miss_count' = miss_count
                      /\ visitor_counter' = visitor_counter]_vars

\* C18 witness: on the new pool, with the expansion disabled, a call of
\* expand has returned and nothing else has been called.
C18_Witness ==
    /\ Disabled
    /\ make_pool(1)
    /\ Quiescent
    /\ \A t \in Threads : held[t] = {}
    /\ \E t \in Managers : ops[t] = MaxOps - 1

\* bucket b is as Bucket2::new fills it: every slot has a value, every
\* presence bit is set, no lock bit is, and the hint is SLOT_CAP
Prefilled(b) ==
    /\ \A j \in 1..SLOT_CAP : b.slot[j] # NULL
    /\ b.bitmap = FULL_FLAG
    /\ b.len = SLOT_CAP

\* C19: a call of expand that returns true has appended exactly
\* `additional` buckets, each of them filled, to buckets that it has left as
\* they were, so that with no other call in progress capacity() and len()
\* have both grown by SLOT_CAP * additional; it has then stored 0 in
\* miss_count; and when it returns the visitor count is 1 and the barrier
\* is lowered.
C19_ExpandAppendsAndRestores ==
    [][\A t \in Threads :
          /\ (pc[t] = "x_add" /\ pc'[t] = "x_miss")
                => /\ Len(Buckets') = Len(Buckets) + loc[t].additional
                   /\ \A k \in 1..Len(Buckets) : Buckets'[k] = Buckets[k]
                   /\ \A k \in (Len(Buckets) + 1)..Len(Buckets') :
                         Prefilled(Buckets'[k])
                   /\ (\A u \in Threads \ {t} : pc[u] = "idle")
                         => /\ capacity' = capacity + SLOT_CAP * loc[t].additional
                            /\ len' = len + SLOT_CAP * loc[t].additional
          /\ (pc[t] = "x_miss" /\ pc'[t] = "x_restore")
                => miss_count' = 0
          /\ (pc[t] = "x_lower" /\ pc'[t] = "idle" /\ loc[t].safe)
                => /\ visitor_counter'.count = 1
                   /\ ~visitor_counter'.barrier]_vars

\* the number of steps a call of expand(_, false) can still take, at most
ExpandRank(p) ==
    CASE p = "x_raise" -> 6
      [] p = "x_wait" -> 5
      [] p = "x_add" -> 4
      [] p = "x_miss" -> 3
      [] p = "x_restore" -> 2
      [] p = "x_lower" -> 1
      [] OTHER -> 0

\* thread t is in a call of expand(_, false)
InExpandNoBlock(t) ==
    pc[t] \in {"x_raise", "x_wait", "x_add", "x_miss", "x_restore", "x_lower"}
        /\ ~loc[t].block

\* thread t takes a step
Steps(t) == <<pc[t], loc[t]>>' # <<pc[t], loc[t]>>

HoldsBarrier(t) ==
    pc[t] \in {"x_wait", "x_add", "x_miss", "x_restore", "x_lower",
               "r_write", "r_lower"}

\* at most one thread has raised the barrier and not lowered it, and the
\* barrier is raised while a thread has
OneExclusive ==
    \A t \in Threads :
        HoldsBarrier(t)
            => /\ visitor_counter.barrier
               /\ \A u \in Threads \ {t} : ~HoldsBarrier(u)

\* C21: at most one call of expand or reset_handle holds the barrier at a
\* time; and the compare_exchange of an expand that finds the barrier
\* raised by another call is the last step of that expand: it returns
\* false, and the buckets, miss_count, the visitor count and the barrier
\* (which the other call still holds) are as they were.
C21_OneExclusiveAtATime ==
    [][/\ OneExclusive
       /\ OneExclusive'
       /\ \A t \in Threads :
             (pc[t] = "x_raise" /\ Steps(t) /\ visitor_counter.barrier)
                 => /\ pc'[t] = "idle"
                    /\ heap' = heap
                    /\ slots' = slots
                    /\ miss_count' = miss_count
                    /\ visitor_counter' = visitor_counter]_vars

\* C21 witness: an expand is about to try the barrier while a reset_handle
\* of another thread holds it, after an expand of that thread was turned
\* away in the same way.
C21_Witness ==
    \E t, u \in Threads :
        /\ t # u
        /\ pc[t] = "x_raise"
        /\ pc[u] = "r_write"
        /\ ops[u] = 0
        /\ Len(Buckets) = 1

\* no thread but t is in a call
OthersIdle(t) == \A u \in Threads \ {t} : pc[u] = "idle"

\* C22: in every run in which the calls of get and put of the other
\* threads complete again and again, a call of expand(_, true) that has
\* raised the barrier eventually has the visitor count for itself and goes
\* on to return true.  What a build with overflow checks does at the
\* underflow of the backoff counter, which is to panic, is not counted
\* against the call here.
C22_BlockingExpandReturnsTrue ==
    \A t \in Managers :
        ([]<>OthersIdle(t))
            => ((pc[t] = "x_wait" /\ loc[t].block)
                    ~> ((pc[t] = "x_lower" /\ loc[t].safe) \/ pc[t] = "panicked"))

\* C23: while a call of reset_handle is about to write the hook, having
\* raised the barrier, no other thread is registered as a visitor inside
\* get or put.
C23_HookWrittenAlone ==
    \A t, u \in Threads : (t # u /\ pc[t] = "r_write") => ~Scanning(u)

\* C24: the backoff counter of expand and of reset_handle is above 0
\* whenever a failed attempt decrements it: at the compare_exchange of
\* expand that does not find the visitor count at 1, and at the
\* compare_exchange of reset_handle that finds the barrier raised.
C24_BackoffNeverUnderflows ==
    [][\A t \in Threads :
          /\ (pc[t] = "x_wait" /\ Steps(t) /\ visitor_counter.count # 1)
                => loc[t].count > 0
          /\ (pc[t] = "r_cas" /\ Steps(t) /\ visitor_counter.barrier)
                => loc[t].count > 0]_vars

\* C25: with one thread that changes the configuration, a call of
\* allow_expansion(allow) that finds expansion_enabled() different from
\* allow changes the configuration word in the bit CONFIG_ALLOW_EXPANSION
\* and in no other bit, and nothing else of the pool, and expansion_enabled()
\* is allow afterwards; a call that finds it equal to allow returns at once,
\* which is what a second call of allow_expansion(allow) finds.
C25_AllowExpansionSetsTheBit ==
    [][\A t \in Threads, allow \in BOOLEAN :
          AllowExpansion(t, allow)
              => /\ expansion_enabled' = allow
                 /\ BitXor(configure', configure) = CONFIG_ALLOW_EXPANSION
                 /\ UNCHANGED <<heap, slots, curr, visitor_counter, miss_count,
                                reset_handle>>]_vars

\* C25 witness: the expansion is enabled on a pool on which nothing else
\* has been called.
C25_Witness ==
    /\ expansion_enabled
    /\ Quiescent
    /\ \A t \in Threads : ops[t] \in {0, MaxOps}
    /\ Len(Buckets) = 1

\* no call has been made on the pool yet
Unused ==
    \A t \in Threads :
        pc[t] = "idle" /\ held[t] = {} /\ ops[t] \in {0, MaxSeqOps}

C27_CapacityCoversTheSize ==
    (ctor.name = "with_size" /\ ctor.size >= 1)
        => (capacity % 8 = 0 /\ capacity >= ctor.size)

\* thread t calls refill in this step
RefillCalled(t) ==
    /\ pc[t] = "idle"
    /\ OutOfRefill(t)
    /\ ops'[t] < ops[t]
    /\ pc'[t] \in {"idle", "f_loop"}
    /\ refilling'[t].at \in {"loop", "done"}

\* the refill of thread t returns in this step
RefillReturned(t) ==
    /\ refilling'[t].at = "done"
    /\ refilling[t].at \in {"loop", "put"} \/ RefillCalled(t)

\* C28: on a pool that one thread uses, refill(additional) records
\* capacity() - len() of the moment of the call as its empty slots, returns
\* the smaller of additional and that number, and when it returns len() is
\* the len() of the call plus the returned count; len() is never greater
\* than capacity() during the call, and the return is 0 on a full pool.
C28_RefillReturnsWhatItInstalls ==
    [][\A t \in Threads :
          LET f == refilling'[t]
          IN  /\ RefillCalled(t)
                    => (f.cap = capacity /\ f.empty_slots = capacity - len)
              /\ RefillReturned(t)
                    => /\ f.ret = IF f.additional < f.empty_slots
                                  THEN f.additional ELSE f.empty_slots
                       /\ len' = (f.cap - f.empty_slots) + f.ret
                       /\ f.empty_slots = 0 => f.ret = 0
              /\ (RefillCalled(t) \/ ~OutOfRefill(t)) => len' <= capacity']_vars

\* C28 witness: a refill that was asked for more elements than a bucket
\* holds has returned after filling a whole emptied bucket.
C28_Witness ==
    \E t \in Threads :
        /\ refilling[t].at = "done"
        /\ refilling[t].additional = SLOT_CAP + 1
        /\ refilling[t].empty_slots = SLOT_CAP
        /\ refilling[t].ret = SLOT_CAP
        /\ len = capacity

\* the slots of the word src that a get (presence 1, lock 0) or a put
\* (presence 0, lock 0) can take
Usable(src, get) ==
    {i \in 0..7 : /\ BitAt(src, 2 * i) = (IF get THEN 1 ELSE 0)
                  /\ BitAt(src, 2 * i + 1) = 0}

\* C29: for every 16-bit word and both modes, enter returns Ok(i) with i the
\* smallest slot in 0..7 whose (presence, lock) bits are (1,0) for a get
\* and (0,0) for a put, and it returns Err exactly when there is no such
\* slot.
C29_EnterFindsTheFirstUsableSlot ==
    probe.fn = "enter"
        => LET S == Usable(probe.src, probe.get)
           IN  IF S = {}
               THEN probe.res = Err
               ELSE /\ probe.res.ok
                    /\ probe.res.pos \in S
                    /\ \A i \in S : probe.res.pos <= i

\* C29 witness: a put has entered a word whose slots 0 and 1 are taken,
\* whose slot 2 is free but locked, and whose slot 3 is free: Ok(3).
C29_Witness ==
    /\ probe.fn = "enter"
    /\ ~probe.get
    /\ BitAnd(probe.src, 255) = 37
    /\ probe.res = Ok(3)

\* C30: for every 16-bit word, check_len is the number of the presence
\* bits (the bits 2i, i in 0..7) that are set, whatever the lock bits are.
C30_CheckLenCountsThePresenceBits ==
    probe.fn = "check_len"
        => probe.len = Cardinality({i \in 0..7 : BitAt(probe.src, 2 * i) = 1})

\* C30 witness: check_len of a word with every lock bit set and the presence
\* bits of three slots set is 3.
C30_Witness ==
    /\ probe.fn = "check_len"
    /\ BitAnd(probe.src, GET_MASK) = GET_MASK
    /\ BitAnd(probe.src, FULL_FLAG) = 1 + 16 + 4096
    /\ probe.len = 3

\* thread t executes the fetch_xor of a leave in this step
Leaves(t) == pc[t] \in {"g_leave", "p_leave"} /\ Steps(t)

\* C32: the leave(i) of the thread that holds the lock bit of slot i finds
\* that lock bit set, clears it and flips the presence bit of slot i, in
\* one fetch_xor after which it returns; the bits of the other seven slots
\* and the occupancy hint of the bucket are as before.
C32_LeaveTogglesItsSlotOnce ==
    [][\A t \in Threads :
          Leaves(t)
              => LET i == loc[t].i
                     old == Bkt(t).bitmap
                     new == Bkt(t)'.bitmap
                 IN  /\ BitAt(old, 2 * i + 1) = 1
                     /\ BitAt(new, 2 * i + 1) = 0
                     /\ BitAt(new, 2 * i) = 1 - BitAt(old, 2 * i)
                     /\ \A j \in (0..15) \ {2 * i, 2 * i + 1} :
                           BitAt(new, j) = BitAt(old, j)
                     /\ Bkt(t)'.len = Bkt(t).len
                     /\ pc'[t] \notin {"g_leave", "p_leave"}]_vars

\* C32 witness: a put has left slot 1 of a bucket, whose presence bit is
\* now set and whose lock bit is clear, while another thread holds the lock
\* of another slot of the same bucket.
C32_Witness ==
    \E t, u \in Threads :
        /\ t # u
        /\ pc[t] = "p_ret"
        /\ loc[t].i = 1
        /\ BitAt(Bkt(t).bitmap, 2) = 1
        /\ BitAt(Bkt(t).bitmap, 3) = 0
        /\ Holding(u)
        /\ loc[u].buf = loc[t].buf /\ loc[u].pos = loc[t].pos
        /\ loc[u].i # 1

\* thread t is in a get or put on bucket k: between the call of access and
\* the return of leave or of access_failure
InBucket(t, k) ==
    /\ pc[t] \in {"a_gate", "a_load", "a_or", "a_fail", "g_checkout", "g_leave",
                  "p_store", "p_release", "p_leave"}
    /\ loc[t].buf = slots
    /\ loc[t].pos + 1 = k

\* C33: whenever no get or put is in progress on a bucket, every lock bit
\* of the state word of that bucket is 0.
C33_NoLockWithoutAVisitor ==
    \A k \in 1..Len(Buckets) :
        (\A t \in Threads : ~InBucket(t, k))
            => BitAnd(Buckets[k].bitmap, GET_MASK) = 0

\* C33 witness: a get whose checkout failed has left the slot it had
\* locked, and no other thread is in a get or put on that bucket.
C33_Witness ==
    \E t \in Threads :
        /\ pc[t] = "g_unreg"
        /\ loc[t].buf = slots
        /\ ~loc[t].ok
        /\ \A u \in Threads : ~InBucket(u, loc[t].pos + 1)
        /\ BitAnd(Bkt(t).bitmap, GET_MASK) = 0

\* thread t executes a step of access in this step
InAccess(t) == pc[t] \in {"a_gate", "a_load", "a_or", "a_fail"} /\ Steps(t)

\* what the access of a get and of a put adds to the occupancy hint at its
\* start
GateChange(get) == IF get THEN 0 - 1 ELSE 1

\* C34: an access that returns Err has gone through its loop at most
\* TRIALS_COUNT = 4 times, has changed no bit of the state word of the
\* bucket, and has added to the occupancy hint in access_failure the
\* opposite of what it added at its start.  Step by step: the start changes
\* the hint by 1 and no bit; every round of the loop begins with 1 to 4
\* trials left and takes one; a fetch_or that does not get the lock changes
\* nothing; access_failure changes the hint back by 1 and no bit.
C34_FailedAccessLeavesNoTrace ==
    [][\A t \in Threads :
          InAccess(t)
              => LET b == Bkt(t)
                     a == Bkt(t)'
                 IN  /\ pc[t] = "a_gate"
                           => /\ a.len - b.len = GateChange(loc[t].get)
                              /\ a.bitmap = b.bitmap
                     /\ pc[t] = "a_load"
                           => /\ loc[t].atrials \in 1..TRIALS_COUNT
                              /\ loc'[t].atrials = loc[t].atrials - 1
                              /\ a = b
                     /\ (pc[t] = "a_or" /\ pc'[t] \in {"a_load", "a_fail"})
                           => a = b
                     /\ pc[t] = "a_fail"
                           => /\ a.len - b.len = 0 - GateChange(loc[t].get)
                              /\ a.bitmap = b.bitmap
                              /\ a.slot = b.slot
                              /\ pc'[t] \in {"g_next", "p_next"}]_vars

\* C34 witness: the access of a put has returned Err on a full bucket,
\* after four rounds in which enter found no slot, and the hint is 8 again.
C34_Witness ==
    \E t \in Threads :
        /\ pc[t] = "p_next"
        /\ Bkt(t).len = SLOT_CAP
        /\ Bkt(t).bitmap = FULL_FLAG

\* the (presence, lock) bits of slot j in the state word w
Pair(w, j) == <<BitAt(w, 2 * j), BitAt(w, 2 * j + 1)>>

\* the moves of the pair of a slot that a get makes, and those a put makes
GetMoves == {<<<<1, 0>>, <<1, 1>>>>, <<<<1, 1>>, <<0, 0>>>>}
PutMoves == {<<<<0, 0>>, <<0, 1>>>>, <<<<0, 1>>, <<1, 0>>>>}

\* C35: under any interleaving the (presence, lock) pair of every slot
\* moves only from (1,0) to (1,1) to (0,0) in the steps of a get and from
\* (0,0) to (0,1) to (1,0) in the steps of a put: every step of a thread
\* that changes the pair of a slot makes one of the moves of the call the
\* thread is in.
C35_SlotsMoveAlongTheirCycle ==
    [][\A t \in Threads :
          Steps(t)
              => \A k \in 1..Len(Buckets), j \in 0..(SLOT_CAP - 1) :
                    LET old == Pair(Buckets[k].bitmap, j)
                        new == Pair(Buckets[k].bitmap, j)'
                    IN  old # new
                            => <<old, new>> \in
                                  (IF loc[t].get THEN GetMoves ELSE PutMoves)]_vars

\* C36: in every state under any interleaving of get and put, for every
\* slot whose lock bit is clear the presence bit is 1 exactly when the
\* pointer of the slot is not null.
C36_PresenceTellsThePointer ==
    \A k \in 1..Len(Buckets), j \in 0..(SLOT_CAP - 1) :
        BitAt(Buckets[k].bitmap, 2 * j + 1) = 0
            => (BitAt(Buckets[k].bitmap, 2 * j) = 1
                    <=> Buckets[k].slot[j + 1] # NULL)

\* thread t calls get in this step
GetCalled(t) ==
    /\ pc[t] = "idle"
    /\ ops'[t] < ops[t]
    /\ pc'[t] = "g_visit" \/ (pc'[t] = "idle" /\ held'[t] # held[t])

\* C37: a call of get that finds the barrier raised returns at once with a
\* newly constructed value, and leaves the visitor count, the state word,
\* the occupancy hint and the pointers of every bucket, and the cursors as
\* they are.
C37_GetAtTheBarrierTouchesNothing ==
    [][\A t \in Threads :
          (GetCalled(t) /\ visitor_counter.barrier)
              => /\ pc'[t] = "idle"
                 /\ \E v \in held'[t] :
                       /\ v \notin LiveValues
                       /\ held'[t] = held[t] \cup {v}
                 /\ UNCHANGED <<visitor_counter, heap, slots, curr>>]_vars

\* C37 witness: while the first thread, whose only call is an expand, has
\* the barrier raised, another thread holds a value from its only call, a
\* get, although the pool is full and no get has missed.
C37_Witness ==
    \E t \in Managers, u \in Threads \ Managers :
        /\ visitor_counter.barrier
        /\ pc[t] \in {"x_wait", "x_add"}
        /\ ops[t] = MaxOps - 1
        /\ pc[u] = "idle"
        /\ ops[u] = MaxOps - 1
        /\ held[u] # {}
        /\ miss_count = 0
        /\ len = capacity /\ Occupied = capacity

\* C38: whenever no call of get, put, expand or reset_handle is in
\* progress the visitor count is the sentinel 1 and the barrier is lowered,
\* after any interleaving of those calls; and the visitor count is never
\* below 0, which on the usize is the wrap to usize::MAX.
C38_VisitorCountComesBackToOne ==
    /\ Quiescent => (visitor_counter.count = 1 /\ ~visitor_counter.barrier)
    /\ visitor_counter.count >= 0

\* C39: in every state, also while other threads are in the middle of a
\* get or a put, the size_hint of every bucket is at most 8 and len() is at
\* most capacity(), and the capacity() - len() of every call of refill is
\* a number from 0 to the capacity: the subtraction has not wrapped.
C39_LenWithinCapacity ==
    /\ \A k \in 1..Len(Buckets) : size_hint(Buckets[k]) \in 0..SLOT_CAP
    /\ len <= capacity
    /\ \A t \in Threads :
          refilling[t].at # "none"
              => refilling[t].empty_slots \in 0..refilling[t].cap

\* C39 witness: refill has been called while a put of another thread on
\* the full bucket has the occupancy hint at 9; the call has counted the 8
\* empty slots that the hint of 9 % 9 = 0 reports.
C39_Witness ==
    \E t, u \in Threads :
        /\ t # u
        /\ pc[t] = "f_loop"
        /\ refilling[t].empty_slots = SLOT_CAP
        /\ pc[u] \in {"a_load", "a_fail"}
        /\ Bkt(u).len = SLOT_CAP + 1


\* the values thread t's step returns from get: the one checked out, or the
\* one constructed on a miss or at a raised barrier
Returned(t) ==
    IF pc[t] = "g_ret" /\ pc'[t] = "idle" THEN {loc[t].val}
    ELSE IF pc[t] \in {"g_miss", "idle"} /\ pc'[t] = "idle"
         THEN held'[t] \ held[t]
         ELSE {}

\* C31: every value get returns, checked out of a slot or constructed on a
\* miss or on a raised barrier, is one the pool's construction strategy
\* produced, a value that is alive and that no caller has brought in.
C31_GetReturnsWhatThePoolBuilt ==
    [][\A t \in Threads : Returned(t) \subseteq origin'.built]_vars

====
